---- MODULE Spec2Model ----
(***************************************************************************)
(* Filter evaluation of mod_dav_calendar (src/mod_dav_calendar.c): the     *)
(* text matcher, the time-range resolver, the time-range tests, the        *)
(* param/prop/comp filter matcher, the free-busy aggregation and the       *)
(* calendar-data projector, with the libical state they depend on (the     *)
(* ambient icalerrno and the per-component iterators).                     *)
(*                                                                         *)
(* C strings are sequences of character codes without the terminating NUL; *)
(* reading one position past the end yields 0, as the C code does.         *)
(***************************************************************************)
EXTENDS Integers, Sequences, FiniteSets, TLC

VARIABLES
    pc,         \* position of the caller: "ready" before an operation, "done" after
    match,      \* ctx->match
    pre,        \* ctx->match on entry of the last operation
    err,        \* dav_error returned by the last operation (its tagname), or "NULL"
    icalerrno,  \* libical's ambient error indicator
    text_match, \* the text-match element handed to dav_calendar_text_match
    text,       \* the candidate string handed to dav_calendar_text_match
    time_range, \* the time-range element handed to dav_calendar_time_range
    stt,        \* the caller's icaltimetype *stt: <<>> is NULL, <<t>> points to t
    ett,        \* the caller's icaltimetype *ett
    doc,        \* ctx->doc, the report document of the request
    comp,       \* the calendar object last handed to dav_calendar_filter
    citer,      \* the component_iterator of every component of comp
    garbage,    \* what an uninitialised pointer variable holds in this build
    nobj,       \* calendar objects parsed from the resource being read
    target,     \* the component (its path) and property (its position, 0 for
                \* none) handed to a time-range test
    elem,       \* ctx->elem, the calendar-data element of the request: <<>> is
                \* NULL
    parsed,     \* the calendar object as the parser delivered it last
    out,        \* ctx->comp: the objects put into it, <<>> is NULL
    members,    \* the resources the provider's walk goes through, in order
    walker,     \* the callback of the walk: "get" or "report"
    wpos,       \* position in members of the resource the walk is at
    visited,    \* positions of the resources the callback was called for
    wret,       \* what the callback returned last
    wlog,       \* messages of the errors the callbacks have logged
    responses,  \* the propstats of the responses streamed by the callbacks
    tgt,        \* the resource a calendar collection is to be created at
    ancestors,  \* its ancestors, the parent first and the root last
    before,     \* tgt and ancestors as the request found them
    pstatus,    \* status of the dav_error the creation ended with, or "NULL"
    input,      \* the body of a resource as the brigades of buckets it comes in
    pending,    \* the brigades the parse filter has not been called with yet
    lines,      \* the lines handed to icalparser_add_line, in order
    recur,      \* the recurring event being expanded and the range given
    ryear,      \* the year of the next instance of its recurrence rule
    ninst       \* the number of calls of the callback so far

vars ==
    <<pc, match, pre, err, icalerrno, text_match, text, time_range, stt, ett,
      doc, comp, citer, garbage, nobj, target, elem, parsed, out,
      members, walker, wpos, visited, wret, wlog, responses,
      tgt, ancestors, before, pstatus, input, pending, lines,
      recur, ryear, ninst>>

textVars == <<text_match, text>>

timeVars == <<time_range, stt, ett>>

filterVars == <<doc, comp, citer, garbage, nobj>>

rangeVars == <<target>>

dataVars == <<elem, parsed, out>>

walkVars == <<members, walker, wpos, visited, wret, wlog, responses>>

provVars == <<tgt, ancestors, before, pstatus>>

lineVars == <<input, pending, lines>>

recurVars == <<recur, ryear, ninst>>

\* the variables of the parts of the module that stand on their own
auxVars == <<walkVars, provVars, lineVars, recurVars>>

\* no walk is under way
WalkIdle ==
    /\ members = <<>>
    /\ walker = "none"
    /\ wpos = 0
    /\ visited = <<>>
    /\ wret = "NULL"
    /\ wlog = <<>>
    /\ responses = <<>>

\* no calendar collection is being created
ProvIdle ==
    /\ tgt = "missing"
    /\ ancestors = <<>>
    /\ before = <<>>
    /\ pstatus = "NULL"

\* no body is being read
LineIdle ==
    /\ input = <<>>
    /\ pending = <<>>
    /\ lines = <<>>

\* no recurrence is being expanded
RecurIdle ==
    /\ recur = <<>>
    /\ ryear = 0
    /\ ninst = 0

AuxInit == WalkIdle /\ ProvIdle /\ LineIdle /\ RecurIdle

(***************************************************************************)
(* Bounds of the model.                                                    *)
(***************************************************************************)
MaxPatLen == 2
MaxTextLen == 2
\* sub-components of a VCALENDAR, and calendar objects in one resource
MaxComps == 2
MaxObjects == 2

\* 'A' 'B' 'a' 'b' '@' '`'
Alphabet == {65, 66, 97, 98, 64, 96}

RECURSIVE StringsUpTo(_)
StringsUpTo(n) ==
    IF n = 0 THEN {<<>>}
    ELSE LET S == StringsUpTo(n - 1)
         IN S \cup {Append(s, c) : s \in {t \in S : Len(t) = n - 1}, c \in Alphabet}

NoAttr == "<absent>"
NoError == "NULL"
ValidFilter == "CALDAV:valid-filter"
InternalError == "HTTP_INTERNAL_SERVER_ERROR"
SupportedCollation == "CALDAV:supported-collation"

ICAL_NO_ERROR == "ICAL_NO_ERROR"
ICAL_MALFORMEDDATA_ERROR == "ICAL_MALFORMEDDATA_ERROR"
ICAL_BADARG_ERROR == "ICAL_BADARG_ERROR"

DAV_CALENDAR_COLLATION_ASCII_CASEMAP == "i;ascii-casemap"
DAV_CALENDAR_COLLATION_OCTET == "i;octet"

(***************************************************************************)
(* Text matcher.                                                           *)
(***************************************************************************)

\* *p for a pointer p (1-based index) into a NUL-terminated string
CharAt(s, i) == IF i <= Len(s) THEN s[i] ELSE 0

\* c | ' ' on a non-negative char
BitOr32(c) == IF (c \div 32) % 2 = 1 THEN c ELSE c + 32

dav_calendar_ascii_toupper(c) == IF c < 0 THEN c ELSE BitOr32(c)

\* first inner loop: advance stext to the first character that folds like *smatch
RECURSIVE CasecmpSkip(_, _, _, _)
CasecmpSkip(m, t, smatch, stext) ==
    IF CharAt(t, stext) # 0
       /\ dav_calendar_ascii_toupper(CharAt(m, smatch))
            # dav_calendar_ascii_toupper(CharAt(t, stext))
    THEN CasecmpSkip(m, t, smatch, stext + 1)
    ELSE stext

\* second inner loop: advance both while they fold alike; yields the final smatch
RECURSIVE CasecmpRun(_, _, _, _)
CasecmpRun(m, t, smatch, stext) ==
    IF CharAt(t, stext) # 0 /\ CharAt(m, smatch) # 0
       /\ dav_calendar_ascii_toupper(CharAt(m, smatch))
            = dav_calendar_ascii_toupper(CharAt(t, stext))
    THEN CasecmpRun(m, t, smatch + 1, stext + 1)
    ELSE smatch

\* outer loop, from position tp of text
RECURSIVE CasecmpFrom(_, _, _)
CasecmpFrom(m, t, tp) ==
    IF CharAt(t, tp) = 0 THEN FALSE
    ELSE LET stext == CasecmpSkip(m, t, 1, tp)
             smatch == CasecmpRun(m, t, 1, stext)
         IN IF CharAt(m, smatch) = 0 THEN TRUE
            ELSE CasecmpFrom(m, t, tp + 1)

dav_calendar_text_match_ascii_casecmp(m, t) == CasecmpFrom(m, t, 1)

\* strstr(text, match) != NULL
dav_calendar_text_match_octet(m, t) ==
    \/ m = <<>>
    \/ \E i \in 1..Len(t) :
          /\ i + Len(m) - 1 <= Len(t)
          /\ SubSeq(t, i, i + Len(m) - 1) = m

\* the collation test of a text-match element; the flag is set when the test
\* and negate disagree
Collate(coll, m, t) ==
    IF coll = DAV_CALENDAR_COLLATION_ASCII_CASEMAP
    THEN dav_calendar_text_match_ascii_casecmp(m, t)
    ELSE dav_calendar_text_match_octet(m, t)

\* dav_calendar_text_match: the new value of ctx->match and the error returned
dav_calendar_text_match(m0, tm, t) ==
    IF m0 THEN [match |-> m0, err |-> NoError]
    ELSE IF tm.negate \notin {NoAttr, "no", "yes"}
    THEN [match |-> m0, err |-> ValidFilter]
    ELSE LET negate == (tm.negate = "yes")
         IN IF tm.collation = NoAttr
            THEN [match |-> m0, err |-> NoError]
            ELSE IF tm.collation \in {DAV_CALENDAR_COLLATION_ASCII_CASEMAP,
                                      DAV_CALENDAR_COLLATION_OCTET}
            THEN [match |-> (Collate(tm.collation, tm.cdata, t) # negate),
                  err |-> NoError]
            ELSE [match |-> m0, err |-> SupportedCollation]

CollationValues ==
    {NoAttr, DAV_CALENDAR_COLLATION_ASCII_CASEMAP, DAV_CALENDAR_COLLATION_OCTET,
     "i;unicode-casemap"}

NegateValues == {NoAttr, "no", "yes", "maybe"}

TextMatchElems ==
    [cdata : StringsUpTo(MaxPatLen), collation : CollationValues,
     negate : NegateValues]

NoTextMatch == [cdata |-> <<>>, collation |-> NoAttr, negate |-> NoAttr]

(***************************************************************************)
(* Time-range resolver.                                                    *)
(***************************************************************************)

DigitVal ==
    [c \in {"0", "1", "2", "3", "4", "5", "6", "7", "8", "9"} |->
        CASE c = "0" -> 0 [] c = "1" -> 1 [] c = "2" -> 2 [] c = "3" -> 3
          [] c = "4" -> 4 [] c = "5" -> 5 [] c = "6" -> 6 [] c = "7" -> 7
          [] c = "8" -> 8 [] c = "9" -> 9]

IsDigit(c) == c \in DOMAIN DigitVal

\* a %0<w>d conversion at position p: the digits read (at most w of them)
RECURSIVE ScanDigits(_, _, _)
ScanDigits(str, p, w) ==
    IF w = 0 \/ p > Len(str) \/ ~IsDigit(str[p]) THEN <<>>
    ELSE <<DigitVal[str[p]]>> \o ScanDigits(str, p + 1, w - 1)

RECURSIVE DigitsValue(_)
DigitsValue(ds) ==
    IF ds = <<>> THEN 0
    ELSE 10 * DigitsValue(SubSeq(ds, 1, Len(ds) - 1)) + ds[Len(ds)]

\* sscanf(str + p - 1, fmt, ...): fmt is a sequence of widths, 0 standing for
\* %c; yields the values assigned, in order, stopping at the first conversion
\* that fails
RECURSIVE Sscanf(_, _, _)
Sscanf(str, p, fmt) ==
    IF fmt = <<>> THEN <<>>
    ELSE IF Head(fmt) = 0
    THEN IF p > Len(str) THEN <<>>
         ELSE <<str[p]>> \o Sscanf(str, p + 1, Tail(fmt))
    ELSE LET ds == ScanDigits(str, p, Head(fmt))
         IN IF ds = <<>> THEN <<>>
            ELSE <<DigitsValue(ds)>> \o Sscanf(str, p + Len(ds), Tail(fmt))

icaltime_null_time ==
    [year |-> 0, month |-> 0, day |-> 0, hour |-> 0, minute |-> 0,
     second |-> 0, is_date |-> FALSE, is_utc |-> FALSE]

icaltime_is_null_time(t) ==
    t.year + t.month + t.day + t.hour + t.minute + t.second = 0

MkTime(v, isdate, utc) ==
    [year |-> v[1], month |-> v[2], day |-> v[3], hour |-> v[4],
     minute |-> v[5], second |-> v[6], is_date |-> isdate, is_utc |-> utc]

\* libical's icaltime_from_string, as called at the four call sites of
\* dav_calendar_time_range: the time parsed, and whether the FAIL exit (which
\* sets icalerrno to ICAL_MALFORMEDDATA_ERROR) was taken.  A successful parse
\* leaves icalerrno as it was.
icaltime_from_string(str) ==
    LET size == Len(str)
        FAIL == [ok |-> FALSE, tt |-> icaltime_null_time]
    IN IF size \in {15, 19} \/ (size \in {16, 20} /\ str[size] = "Z")
       THEN LET utc == size \in {16, 20}
            IN IF size > 16
               THEN LET v == Sscanf(str, 1, <<4, 0, 2, 0, 2, 0, 2, 0, 2, 0, 2>>)
                    IN IF Len(v) < 11 \/ v[6] # "T" \/ v[2] # "-" \/ v[4] # "-"
                          \/ v[8] # ":" \/ v[10] # ":"
                       THEN FAIL
                       ELSE [ok |-> TRUE,
                             tt |-> MkTime(<<v[1], v[3], v[5], v[7], v[9], v[11]>>,
                                           FALSE, utc)]
               ELSE LET v == Sscanf(str, 1, <<4, 2, 2, 0, 2, 2, 2>>)
                    IN IF Len(v) < 7 \/ v[4] # "T"
                       THEN FAIL
                       ELSE [ok |-> TRUE,
                             tt |-> MkTime(<<v[1], v[2], v[3], v[5], v[6], v[7]>>,
                                           FALSE, utc)]
       ELSE IF size = 10
       THEN LET v == Sscanf(str, 1, <<4, 0, 2, 0, 2>>)
            IN IF Len(v) < 5 \/ v[2] # "-" \/ v[4] # "-"
               THEN FAIL
               ELSE [ok |-> TRUE,
                     tt |-> MkTime(<<v[1], v[3], v[5], 0, 0, 0>>, TRUE, FALSE)]
       ELSE IF size = 8
       THEN LET v == Sscanf(str, 1, <<4, 2, 2>>)
            IN IF Len(v) < 3
               THEN FAIL
               ELSE [ok |-> TRUE,
                     tt |-> MkTime(<<v[1], v[2], v[3], 0, 0, 0>>, TRUE, FALSE)]
       ELSE FAIL

\* icalerrno after a call of icaltime_from_string that returned r
ErrnoAfter(e0, r) == IF r.ok THEN e0 ELSE ICAL_MALFORMEDDATA_ERROR

\* an attribute that is not there (dav_find_attr_ns returns NULL)
NoBound == <<"<absent>">>

\* "00000101000000Z", the literal parsed for a missing start
DefaultStartString ==
    <<"0", "0", "0", "0", "0", "1", "0", "1", "0", "0", "0", "0", "0", "0", "Z">>

\* "99991231235959Z", the literal parsed for a missing end
DefaultEndString ==
    <<"9", "9", "9", "9", "1", "2", "3", "1", "2", "3", "5", "9", "5", "9", "Z">>

\* dav_calendar_time_range: the caller's *stt and *ett, the error returned and
\* icalerrno afterwards
dav_calendar_time_range(m0, e0, tr, stt0, ett0) ==
    IF m0 THEN [stt |-> stt0, ett |-> ett0, err |-> NoError, icalerrno |-> e0]
    ELSE LET rs == icaltime_from_string(
                      IF tr.start = NoBound THEN DefaultStartString ELSE tr.start)
             e1 == ErrnoAfter(e0, rs)
         IN IF tr.start # NoBound /\ e1 # ICAL_NO_ERROR
            THEN [stt |-> <<rs.tt>>, ett |-> ett0, err |-> ValidFilter,
                  icalerrno |-> e1]
            ELSE LET re == icaltime_from_string(
                              IF tr.end = NoBound THEN DefaultEndString ELSE tr.end)
                     e2 == ErrnoAfter(e1, re)
                 IN IF tr.end # NoBound /\ e2 # ICAL_NO_ERROR
                    THEN [stt |-> <<rs.tt>>, ett |-> <<re.tt>>,
                          err |-> ValidFilter, icalerrno |-> e2]
                    ELSE [stt |-> <<rs.tt>>, ett |-> <<re.tt>>,
                          err |-> IF tr.start = NoBound /\ tr.end = NoBound
                                  THEN ValidFilter ELSE NoError,
                          icalerrno |-> e2]

Date20240101 == <<"2", "0", "2", "4", "0", "1", "0", "1">>
Date20240102 == <<"2", "0", "2", "4", "0", "1", "0", "2">>
Midnight == <<"0", "0", "0", "0", "0", "0">>

\* attribute values a time-range element may carry
BoundValues ==
    {NoBound,
     Date20240101 \o <<"T">> \o Midnight \o <<"Z">>,
     Date20240102 \o <<"T">> \o Midnight \o <<"Z">>,
     Date20240101 \o <<"T">> \o Midnight,
     Date20240101,
     Date20240101 \o Midnight \o <<"Z">>,
     Date20240101 \o <<"T">> \o Midnight \o <<"0">>,
     <<"x">>}

TimeRangeElems == [start : BoundValues, end : BoundValues]

NoTimeRange == [start |-> NoBound, end |-> NoBound]

(***************************************************************************)
(* Calendar objects and libical's iterators.                               *)
(*                                                                         *)
(* A component is [kind, props, comps], a property [name, value, time,     *)
(* end, params], a parameter [name, kind, value].  time is the value of a  *)
(* date-time property (a DURATION or a relative TRIGGER holds its duration *)
(* there as a time of year 0), and a FREEBUSY property holds one period    *)
(* from time to end.  A component is addressed by                          *)
(* its path from the root (the sequence of child positions); a pointer is  *)
(* <<>> for NULL and <<x>> for a pointer to x.  The world threaded through *)
(* the matcher is [obj, citer, match, icalerrno, err, garbage]: the        *)
(* object, every component's component_iterator (0 is a null iterator),    *)
(* ctx->match, the ambient error, the error being returned, and the value  *)
(* an uninitialised pointer variable holds.                                *)
(***************************************************************************)

\* the process is killed by a NULL or wild pointer dereference
Crash == "SIGSEGV"

\* an invalid pointer
Wild == <<"<wild>">>

RECURSIVE Node(_, _)
Node(c, path) == IF path = <<>> THEN c ELSE Node(c.comps[Head(path)], Tail(path))

\* icalcomponent_get_first_component(c, ICAL_ANY_COMPONENT)
icalcomponent_get_first_component(w, path) ==
    LET n == IF Len(Node(w.obj, path).comps) > 0 THEN 1 ELSE 0
    IN [w |-> [w EXCEPT !.citer[path] = n],
        ptr |-> IF n = 0 THEN <<>> ELSE <<Append(path, 1)>>]

\* icalcomponent_get_next_component(c, ICAL_ANY_COMPONENT): the iterator
\* advanced is c's own; a NULL c is a bad argument
icalcomponent_get_next_component(w, c) ==
    IF c = <<>>
    THEN [w |-> [w EXCEPT !.icalerrno = ICAL_BADARG_ERROR], ptr |-> <<>>]
    ELSE LET k == w.citer[c[1]]
         IN IF k = 0 THEN [w |-> w, ptr |-> <<>>]
            ELSE IF k + 1 <= Len(Node(w.obj, c[1]).comps)
            THEN [w |-> [w EXCEPT !.citer[c[1]] = k + 1],
                  ptr |-> <<Append(c[1], k + 1)>>]
            ELSE [w |-> [w EXCEPT !.citer[c[1]] = 0], ptr |-> <<>>]

\* position of the first property of that name at or after position i, or 0
RECURSIVE FirstProperty(_, _, _)
FirstProperty(props, name, i) ==
    IF i > Len(props) THEN 0
    ELSE IF props[i].name = name THEN i
    ELSE FirstProperty(props, name, i + 1)

\* components libical counts as "real" (icalcomponent_get_first_real_component)
RealKinds == {"VEVENT", "VTODO", "VJOURNAL", "VFREEBUSY"}

RECURSIVE FirstReal(_, _)
FirstReal(comps, i) ==
    IF i > Len(comps) THEN 0
    ELSE IF comps[i].kind \in RealKinds THEN i
    ELSE FirstReal(comps, i + 1)

\* icalcomponent_get_inner: of a VCALENDAR its first real component, found by
\* walking the VCALENDAR's component_iterator; of any other component itself
icalcomponent_get_inner(w, path) ==
    IF Node(w.obj, path).kind = "VCALENDAR"
    THEN LET k == FirstReal(Node(w.obj, path).comps, 1)
         IN [w |-> [w EXCEPT !.citer[path] = k],
             ptr |-> IF k = 0 THEN <<>> ELSE <<Append(path, k)>>]
    ELSE [w |-> w, ptr |-> <<path>>]

\* icaltime_as_timet: seconds since 1970 on a scale (months of 31 days) that
\* keeps the order of times and the length of a day; the null time gives 0
TimeT(t) ==
    IF icaltime_is_null_time(t) THEN 0
    ELSE (((t.year - 1970) * 12 + t.month) * 31 + t.day) * 86400
            + t.hour * 3600 + t.minute * 60 + t.second

\* a span that gives a DATE no more time than a DATE-TIME has: what
\* icaltime_span_new must differ from for a DATE to last its day
SpanOfInstants(dtstart, dtend) ==
    [start |-> TimeT(dtstart),
     end |-> IF icaltime_is_null_time(dtend) THEN TimeT(dtstart) ELSE TimeT(dtend)]

\* icaltime_span_new(dtstart, dtend, is_busy)
icaltime_span_new(dtstart, dtend) ==
    LET s == TimeT(dtstart)
    IN IF icaltime_is_null_time(dtend) /\ ~dtstart.is_date
       THEN [start |-> s, end |-> s]
       ELSE LET e == IF icaltime_is_null_time(dtend) THEN s ELSE TimeT(dtend)
            IN [start |-> s, end |-> IF dtstart.is_date THEN e + 86399 ELSE e]

\* icaltime_span_overlaps(s1, s2)
icaltime_span_overlaps(s1, s2) ==
    \/ s1.start > s2.start /\ s1.start < s2.end
    \/ s1.end > s2.start /\ s1.end < s2.end
    \/ s2.start > s1.start /\ s2.start < s1.end
    \/ s2.end > s1.start /\ s2.end < s1.end
    \/ s1.start = s2.start /\ s1.end = s2.end

\* lookup of the first property of that name in the inner component in: its
\* value and the property_iterator the lookup leaves behind (piter is the
\* iterator of the component the caller walks; it moves only when that
\* component is the inner one)
GetTimeOf(in, obj, path, name, piter) ==
    IF in.ptr = <<>>
    THEN [w |-> [in.w EXCEPT !.icalerrno = ICAL_BADARG_ERROR], has |-> FALSE,
          time |-> icaltime_null_time, piter |-> piter]
    ELSE LET props == Node(obj, in.ptr[1]).props
             k == FirstProperty(props, name, 1)
         IN [w |-> in.w, has |-> k # 0,
             time |-> IF k = 0 THEN icaltime_null_time ELSE props[k].time,
             piter |-> IF in.ptr[1] = path THEN k ELSE piter]

\* icalcomponent_get_dtstart and the like
GetTime(w, path, name, piter) ==
    GetTimeOf(icalcomponent_get_inner(w, path), w.obj, path, name, piter)

\* icalproperty_recurrence_is_excluded(comp, &time, &time): a null time is bad
\* data and counts as excluded; otherwise the time is compared with every
\* EXDATE; the property_iterator is saved and restored
icalproperty_recurrence_is_excluded(w, path, time) ==
    \/ icaltime_is_null_time(time)
    \/ \E i \in 1..Len(Node(w.obj, path).props) :
          /\ Node(w.obj, path).props[i].name = "EXDATE"
          /\ TimeT(Node(w.obj, path).props[i].time) = TimeT(time)

\* icaltime_add(t, d) for a duration d held as a time of year 0, month 0
icaltime_add(t, d) ==
    [t EXCEPT !.day = @ + d.day, !.hour = @ + d.hour,
              !.minute = @ + d.minute, !.second = @ + d.second]

\* DTSTART + DURATION
GetEndSum(d, st) ==
    [st EXCEPT !.time = icaltime_add(st.time, d.time), !.has = TRUE]

\* the DTEND (DUE) property e if there is one, else DTSTART + DURATION d,
\* else the null time
GetEndValue(e, d, path) ==
    IF e.has THEN [d EXCEPT !.time = e.time, !.has = TRUE]
    ELSE IF ~d.has THEN d
    ELSE GetEndSum(d, GetTime(d.w, path, "DTSTART", d.piter))

GetEndDuration(e, path) ==
    GetEndValue(e, GetTime(e.w, path, "DURATION", e.piter), path)

\* icalcomponent_get_dtend / icalcomponent_get_due: both the DTEND (DUE) and
\* the DURATION property are looked up before either is used
GetEnd(w, path, name, piter) == GetEndDuration(GetTime(w, path, name, piter), path)

\* the switch on icalproperty_isa(prop): the time the property is tested with
PropTime(w, path, prop, piter) ==
    CASE prop.name = "DTEND" -> GetEnd(w, path, "DTEND", piter)
      [] prop.name = "DUE" -> GetEnd(w, path, "DUE", piter)
      [] prop.name = "DTSTART" -> GetTime(w, path, "DTSTART", piter)
      [] prop.name = "DTSTAMP" -> GetTime(w, path, "DTSTAMP", piter)
      [] prop.name \in {"COMPLETED", "CREATED", "LAST-MODIFIED"} ->
            [w |-> w, has |-> TRUE, time |-> prop.time, piter |-> piter]
      [] OTHER -> [w |-> w, has |-> FALSE, time |-> icaltime_null_time,
                   piter |-> piter]

\* the test of the time t against the range
PropTimeTest(w, path, t, st, et) ==
    [w |-> IF icalproperty_recurrence_is_excluded(w, path, t.time)
              \/ icaltime_span_overlaps(icaltime_span_new(t.time, t.time),
                                        icaltime_span_new(st[1], et[1]))
           THEN [t.w EXCEPT !.match = TRUE] ELSE t.w,
     piter |-> t.piter]

\* dav_calendar_prop_time_range on property number p of the component at
\* path: the world afterwards and the component's property_iterator
dav_calendar_prop_time_range(w, path, p, piter, st, et) ==
    IF w.match THEN [w |-> w, piter |-> piter]
    ELSE PropTimeTest(w, path, PropTime(w, path, Node(w.obj, path).props[p], piter),
                      st, et)

\* the largest time_t, used by icalcomponent_foreach_recurrence for a null end
TimeTMax == 2147483647

\* the instance given by DTSTART s1 and DTEND e: the callback, which sets
\* ctx->match, is called when it is not excluded and overlaps the range
ForeachSpan(s1, e, path, st, et) ==
    IF ~icalproperty_recurrence_is_excluded(e.w, path, s1.time)
       /\ icaltime_span_overlaps(
             icaltime_span_new(s1.time, e.time),
             [start |-> TimeT(st),
              end |-> IF icaltime_is_null_time(et) THEN TimeTMax ELSE TimeT(et)])
    THEN [e.w EXCEPT !.match = TRUE]
    ELSE e.w

ForeachInstance(s1, path, st, et) ==
    IF icaltime_is_null_time(s1.time) THEN s1.w
    ELSE ForeachSpan(s1, GetEnd(s1.w, path, "DTEND", 0), path, st, et)

\* a VTODO without DTSTART starts at its DUE
ForeachStart(s0, path, st, et) ==
    ForeachInstance(
        IF icaltime_is_null_time(s0.time) /\ Node(s0.w.obj, path).kind = "VTODO"
        THEN GetEnd(s0.w, path, "DUE", 0) ELSE s0,
        path, st, et)

\* icalcomponent_foreach_recurrence(comp, start, end, callback, ctx) for a
\* component without RRULE and RDATE
ForeachRecurrence(w, path, st, et) ==
    ForeachStart(GetTime(w, path, "DTSTART", 0), path, st, et)

\* icalcomponent_get_span(comp) of a component that is no VCALENDAR: the span
\* from DTSTART to DTEND, and the span from 0 to 0 without a DTSTART
icalcomponent_get_span(w, path) ==
    LET s == GetTime(w, path, "DTSTART", 0)
    IN IF icaltime_is_null_time(s.time) THEN [start |-> 0, end |-> 0]
       ELSE icaltime_span_new(s.time, GetEnd(s.w, path, "DTEND", 0).time)

\* the VJOURNAL and the VFREEBUSY case: the span of the component against the
\* range
SpanTimeRange(w, path, st, et) ==
    IF icaltime_span_overlaps(icalcomponent_get_span(w, path),
                              icaltime_span_new(st, et))
    THEN [w EXCEPT !.match = TRUE]
    ELSE w

\* icalproperty_get_trigger: an absolute time, or the null time and a duration
icalproperty_get_trigger(p) ==
    IF p.time.year = 0
    THEN [time |-> icaltime_null_time, duration |-> p.time]
    ELSE [time |-> p.time, duration |-> icaltime_null_time]

icaldurationtype_as_int(d) ==
    d.day * 86400 + d.hour * 3600 + d.minute * 60 + d.second

\* icalproperty_get_repeat: the integer the one-digit value stands for
icalproperty_get_repeat(p) == p.value[1] - 48

\* icaltime_adjust(&t, 0, 0, 0, seconds)
icaltime_adjust(t, seconds) == [t EXCEPT !.second = @ + seconds]

\* icalcomponent_get_parent
icalcomponent_get_parent(path) == SubSeq(path, 1, Len(path) - 1)

\* the duration variable in seconds: the null duration unless the VALARM has
\* a DURATION
AlarmDuration(props) ==
    LET k == FirstProperty(props, "DURATION", 1)
    IN IF k = 0 THEN 0 ELSE icaldurationtype_as_int(props[k].time)

\* the repeat variable: 1 unless the VALARM has a REPEAT
AlarmRepeat(props) ==
    LET k == FirstProperty(props, "REPEAT", 1)
    IN IF k = 0 THEN 1 ELSE icalproperty_get_repeat(props[k]) + 1

\* the test of the trigger tr: an absolute time directly, a relative one by
\* the recurrences of the parent over the range moved by duration * repeat
AlarmTrigger(w, path, tr, st, et) ==
    IF ~icaltime_is_null_time(tr.time)
    THEN IF icaltime_span_overlaps(icaltime_span_new(tr.time, tr.time),
                                   icaltime_span_new(st, et))
         THEN [w EXCEPT !.match = TRUE]
         ELSE w
    ELSE ForeachRecurrence(
           w, icalcomponent_get_parent(path),
           icaltime_adjust(st, AlarmDuration(Node(w.obj, path).props)
                                  * AlarmRepeat(Node(w.obj, path).props)),
           icaltime_adjust(et, AlarmDuration(Node(w.obj, path).props)
                                  * AlarmRepeat(Node(w.obj, path).props)))

\* the VALARM case
AlarmTimeRange(w, path, st, et) ==
    LET k == FirstProperty(Node(w.obj, path).props, "TRIGGER", 1)
    IN IF k = 0 THEN w
       ELSE AlarmTrigger(w, path,
                         icalproperty_get_trigger(Node(w.obj, path).props[k]),
                         st, et)

\* dav_calendar_comp_time_range: the switch on the kind of the component; the
\* default case does nothing
dav_calendar_comp_time_range(w, path, st, et) ==
    IF w.match THEN w
    ELSE IF Node(w.obj, path).kind \in {"VEVENT", "VTODO"}
    THEN ForeachRecurrence(w, path, st[1], et[1])
    ELSE IF Node(w.obj, path).kind \in {"VJOURNAL", "VFREEBUSY"}
    THEN SpanTimeRange(w, path, st[1], et[1])
    ELSE IF Node(w.obj, path).kind = "VALARM"
    THEN AlarmTimeRange(w, path, st[1], et[1])
    ELSE w

(***************************************************************************)
(* Param/prop/comp filter matcher.                                         *)
(*                                                                         *)
(* A filter element is a record: a param-filter [name, ind, tm], a         *)
(* prop-filter [name, ind, tr, tm, prm], a comp-filter [name, ind, tr, pf, *)
(* cf].  ind tells whether an is-not-defined child exists; tr and tm hold  *)
(* the time-range and text-match child (<<>> when there is none); prm, pf  *)
(* and cf are the param-filter, prop-filter and comp-filter children in    *)
(* document order.  A pointer to an element is the sequence that starts at *)
(* it and goes on with its following siblings of the same tag, and <<>> is *)
(* NULL.                                                                   *)
(***************************************************************************)

\* first inner loop of the three matchers: walk the sibling filter elements
\* until one has no name (an error), or one is named like key
RECURSIVE ScanNames(_, _, _)
ScanNames(elems, i, key) ==
    IF i > Len(elems) THEN [res |-> "end", idx |-> 0]
    ELSE IF elems[i].name = NoAttr THEN [res |-> "noname", idx |-> 0]
    ELSE IF key = Wild THEN [res |-> "crash", idx |-> 0]
    ELSE IF key # <<>> /\ key[1] = elems[i].name THEN [res |-> "found", idx |-> i]
    ELSE ScanNames(elems, i + 1, key)

\* second inner loop: some sibling filter element has an is-not-defined child
AnyIsNotDefined(elems) == \E i \in 1..Len(elems) : elems[i].ind

RECURSIVE ParamLoop(_, _, _, _, _, _, _, _)

\* end of the loop body for a parameter whose filter f is found and has no
\* is-not-defined child: r is the outcome of the text-match child
ParamMatched(w, prm, params, k, st, et, prname, f, r) ==
    IF r.err # NoError THEN [w EXCEPT !.err = r.err]
    ELSE ParamLoop([w EXCEPT !.match =
                        r.match \/ (st = <<>> /\ et = <<>> /\ f.tm = <<>>)],
                   prm, params, k + 1, st, et, TRUE, prname)

\* the loop body after the scan of the filter names; elem is NULL when the
\* scan ran off the list, and found is the flag the earlier iterations left
ParamScanned(w, prm, params, k, st, et, found, prname, scan) ==
    IF scan.res = "noname" THEN [w EXCEPT !.err = ValidFilter]
    ELSE IF scan.res = "crash" THEN [w EXCEPT !.err = Crash]
    ELSE IF ~(found \/ scan.res = "found")
    THEN ParamLoop(IF AnyIsNotDefined(prm) THEN [w EXCEPT !.match = TRUE] ELSE w,
                   prm, params, k + 1, st, et, FALSE, prname)
    ELSE IF scan.idx = 0 THEN [w EXCEPT !.err = Crash]
    ELSE IF prm[scan.idx].ind
    THEN ParamLoop(w, prm, params, k + 1, st, et, TRUE, prname)
    ELSE ParamMatched(w, prm, params, k, st, et, prname, prm[scan.idx],
                      IF prm[scan.idx].tm = <<>>
                      THEN [match |-> w.match, err |-> NoError]
                      ELSE dav_calendar_text_match(w.match, prm[scan.idx].tm[1],
                                                   params[k].value))

\* the while (param) loop from parameter k on; prname is what the variable
\* holds on entry to the iteration, assigned only for X and IANA parameters
ParamLoop(w, prm, params, k, st, et, found, prname) ==
    IF k > Len(params) THEN w
    ELSE LET prname1 == IF params[k].kind \in {"X", "IANA"}
                        THEN <<params[k].name>> ELSE prname
         IN ParamScanned(w, prm, params, k, st, et, found, prname1,
                         ScanNames(prm, 1, prname1))

\* dav_calendar_param_filter on the parameters of a property, from the first
dav_calendar_param_filter(w, prm, params, st, et) ==
    IF w.match THEN w
    ELSE ParamLoop(w, prm, params, 1, st, et, FALSE, w.garbage)

\* icalcomponent_get_next_property(comp, ICAL_ANY_PROPERTY)
NextProperty(props, piter) ==
    IF piter = 0 \/ piter + 1 > Len(props) THEN 0 ELSE piter + 1

RECURSIVE PropLoop(_, _, _, _, _, _, _, _)

\* end of the loop body: the next property is asked of the component's
\* property_iterator
PropNext(w, pf, path, piter, st, et, found) ==
    PropLoop(w, pf, path, NextProperty(Node(w.obj, path).props, piter),
             NextProperty(Node(w.obj, path).props, piter), st, et, found)

\* after the time-range test r4 of the property: mere existence matches
PropTested(r4, pf, path, f, st, et) ==
    PropNext(IF st = <<>> /\ et = <<>> /\ f.tr = <<>> /\ f.tm = <<>> /\ f.prm = <<>>
             THEN [r4.w EXCEPT !.match = TRUE] ELSE r4.w,
             pf, path, r4.piter, st, et, TRUE)

\* after the descent into the param-filter children
PropParamed(w, pf, path, p, piter, f, st, et) ==
    IF w.err # NoError THEN w
    ELSE PropTested(IF st # <<>> /\ et # <<>>
                    THEN dav_calendar_prop_time_range(w, path, p, piter, st, et)
                    ELSE [w |-> w, piter |-> piter],
                    pf, path, f, st, et)

\* after the text-match child, whose outcome is r2
PropTexted(w, pf, path, p, piter, f, st, et, r2) ==
    IF r2.err # NoError THEN [w EXCEPT !.match = r2.match, !.err = r2.err]
    ELSE PropParamed(
           IF f.prm = <<>> THEN [w EXCEPT !.match = r2.match]
           ELSE dav_calendar_param_filter([w EXCEPT !.match = r2.match], f.prm,
                                          Node(w.obj, path).props[p].params, st, et),
           pf, path, p, piter, f, st, et)

\* after the time-range child, whose outcome is r1: from here on stt and ett
\* are what it left
PropRanged(w, pf, path, p, piter, f, r1) ==
    IF r1.err # NoError THEN [w EXCEPT !.icalerrno = r1.icalerrno, !.err = r1.err]
    ELSE PropTexted([w EXCEPT !.icalerrno = r1.icalerrno], pf, path, p, piter, f,
                    r1.stt, r1.ett,
                    IF f.tm = <<>> THEN [match |-> w.match, err |-> NoError]
                    ELSE dav_calendar_text_match(w.match, f.tm[1],
                                                 Node(w.obj, path).props[p].value))

\* the loop body after the scan of the filter names
PropScanned(w, pf, path, p, piter, st, et, found, scan) ==
    IF scan.res = "noname" THEN [w EXCEPT !.err = ValidFilter]
    ELSE IF ~(found \/ scan.res = "found")
    THEN PropNext(IF AnyIsNotDefined(pf) THEN [w EXCEPT !.match = TRUE] ELSE w,
                  pf, path, piter, st, et, FALSE)
    ELSE IF scan.idx = 0 THEN [w EXCEPT !.err = Crash]
    ELSE IF pf[scan.idx].ind THEN PropNext(w, pf, path, piter, st, et, TRUE)
    ELSE PropRanged(w, pf, path, p, piter, pf[scan.idx],
                    IF pf[scan.idx].tr = <<>>
                    THEN [stt |-> st, ett |-> et, err |-> NoError,
                          icalerrno |-> w.icalerrno]
                    ELSE dav_calendar_time_range(w.match, w.icalerrno,
                                                 pf[scan.idx].tr[1], st, et))

\* the while (prop) loop: p is the property at hand (0 is NULL) and piter the
\* component's property_iterator
PropLoop(w, pf, path, p, piter, st, et, found) ==
    IF p = 0 THEN w
    ELSE PropScanned(w, pf, path, p, piter, st, et, found,
                     ScanNames(pf, 1, <<Node(w.obj, path).props[p].name>>))

\* dav_calendar_prop_filter on a component, from the property returned by
\* icalcomponent_get_first_property(comp, ICAL_ANY_PROPERTY)
dav_calendar_prop_filter(w, pf, path, st, et) ==
    LET first == IF Len(Node(w.obj, path).props) > 0 THEN 1 ELSE 0
    IN IF w.match THEN w
       ELSE PropLoop(w, pf, path, first, first, st, et, FALSE)

RECURSIVE TimeRangeLoop(_, _, _, _)

TimeRangeFrom(h, st, et) == TimeRangeLoop(h.w, h.ptr, st, et)

\* the next child is asked of the child at hand
TimeRangeNext(w, c, st, et) ==
    TimeRangeFrom(icalcomponent_get_next_component(w, c), st, et)

\* the loop over the children of a VCALENDAR that applies the time-range test
TimeRangeLoop(w, c, st, et) ==
    IF c = <<>> THEN w
    ELSE TimeRangeNext(dav_calendar_comp_time_range(w, c[1], st, et), c, st, et)

RECURSIVE CompLoop(_, _, _, _, _, _)

CompAdvance(n, cf, st, et, found) == CompLoop(n.w, cf, n.ptr, st, et, found)

\* end of the loop body: the next component is asked of the component at
\* hand, and the loop goes on with the comp_filter variable as it is now
CompNext(w, cf, c, st, et, found) ==
    CompAdvance(icalcomponent_get_next_component(w, c), cf, st, et, found)

\* after the time-range test: mere existence matches; c is the comp variable
\* (NULL after the loop over the children of a VCALENDAR) and f.cf what the
\* comp_filter variable was overwritten with
CompExists(w, c, f, st, et) ==
    IF w.err # NoError THEN w
    ELSE CompNext(IF st = <<>> /\ et = <<>> /\ f.tr = <<>> /\ f.pf = <<>>
                     /\ f.cf = <<>>
                  THEN [w EXCEPT !.match = TRUE] ELSE w,
                  f.cf, c, st, et, TRUE)

\* after the descent into the nested comp-filters: the time-range test of
\* line 1548
CompNested(w, c, f, st, et) ==
    IF w.err # NoError THEN w
    ELSE IF ~(st # <<>> /\ et # <<>> /\ f.cf = <<>> /\ f.pf = <<>>)
    THEN CompExists(w, c, f, st, et)
    ELSE IF Node(w.obj, c[1]).kind = "VCALENDAR"
    THEN CompExists(TimeRangeFrom(icalcomponent_get_first_component(w, c[1]),
                                  st, et),
                    <<>>, f, st, et)
    ELSE CompExists(dav_calendar_comp_time_range(w, c[1], st, et), c, f, st, et)

\* the recursive call on the first child g of the component
CompDescend(g, c, f, st, et) ==
    CompNested(IF g.w.match THEN g.w
               ELSE CompLoop(g.w, f.cf, g.ptr, st, et, FALSE),
               c, f, st, et)

\* after the descent into the prop-filter children
CompPropped(w, c, f, st, et) ==
    IF w.err # NoError THEN w
    ELSE IF f.cf = <<>> THEN CompNested(w, c, f, st, et)
    ELSE CompDescend(icalcomponent_get_first_component(w, c[1]), c, f, st, et)

\* after the time-range child, whose outcome is r1
CompRanged(w, c, f, r1) ==
    IF r1.err # NoError THEN [w EXCEPT !.icalerrno = r1.icalerrno, !.err = r1.err]
    ELSE CompPropped(
           IF f.pf = <<>> THEN [w EXCEPT !.icalerrno = r1.icalerrno]
           ELSE dav_calendar_prop_filter([w EXCEPT !.icalerrno = r1.icalerrno],
                                         f.pf, c[1], r1.stt, r1.ett),
           c, f, r1.stt, r1.ett)

\* the loop body after the scan of the filter names
CompScanned(w, cf, c, st, et, found, scan) ==
    IF scan.res = "noname" THEN [w EXCEPT !.err = ValidFilter]
    ELSE IF ~(found \/ scan.res = "found")
    THEN CompNext(IF AnyIsNotDefined(cf) THEN [w EXCEPT !.match = TRUE] ELSE w,
                  cf, c, st, et, FALSE)
    ELSE IF scan.idx = 0 THEN [w EXCEPT !.err = Crash]
    ELSE IF cf[scan.idx].ind THEN CompNext(w, cf, c, st, et, TRUE)
    ELSE CompRanged(w, c, cf[scan.idx],
                    IF cf[scan.idx].tr = <<>>
                    THEN [stt |-> st, ett |-> et, err |-> NoError,
                          icalerrno |-> w.icalerrno]
                    ELSE dav_calendar_time_range(w.match, w.icalerrno,
                                                 cf[scan.idx].tr[1], st, et))

\* the while (comp) loop: cf is the comp_filter variable, c the comp variable
\* and found the flag the earlier iterations left
CompLoop(w, cf, c, st, et, found) ==
    IF c = <<>> THEN w
    ELSE CompScanned(w, cf, c, st, et, found,
                     ScanNames(cf, 1, <<Node(w.obj, c[1]).kind>>))

\* dav_calendar_comp_filter(ctx, timezone, comp_filter, comp, stt, ett)
dav_calendar_comp_filter(w, cf, c, st, et) ==
    IF w.match THEN w ELSE CompLoop(w, cf, c, st, et, FALSE)

\* day of the month, months since 1970 and month of the year of TimeT's scale
DayOf(n) == (((n \div 86400) - 1) % 31) + 1
MonthsOf(n) == ((n \div 86400) - DayOf(n)) \div 31
MonthOf(n) == ((MonthsOf(n) - 1) % 12) + 1

\* icaltime_from_timet_with_zone(t, 0, utc): the inverse of TimeT
icaltime_from_timet(n) ==
    [year |-> 1970 + (MonthsOf(n) - MonthOf(n)) \div 12, month |-> MonthOf(n),
     day |-> DayOf(n), hour |-> (n % 86400) \div 3600,
     minute |-> (n % 3600) \div 60, second |-> n % 60,
     is_date |-> FALSE, is_utc |-> TRUE]

\* the process never returns from a loop
Hang == "<no return>"

\* "TENTATIVE" and "CANCELLED"
StatusTentative == <<84, 69, 78, 84, 65, 84, 73, 86, 69>>
StatusCancelled == <<67, 65, 78, 67, 69, 76, 76, 69, 68>>
\* "TRANSPARENT"
TranspTransparent == <<84, 82, 65, 78, 83, 80, 65, 82, 69, 78, 84>>

\* the value of the property at position k, <<>> for position 0
ValueAt(props, k) == IF k = 0 THEN <<>> ELSE props[k].value

\* icalcomponent_get_status(comp): the STATUS of the inner component in, <<>>
\* for none
InnerStatus(w, in) ==
    IF in.ptr = <<>> THEN <<>>
    ELSE ValueAt(Node(w.obj, in.ptr[1]).props,
                 FirstProperty(Node(w.obj, in.ptr[1]).props, "STATUS", 1))

icalcomponent_get_status(w, path) == InnerStatus(w, icalcomponent_get_inner(w, path))

\* icalcomponent_is_busy(comp), which gives the span its is_busy: the TRANSP
\* of comp itself and the STATUS of its inner component
icalcomponent_is_busy(w, path) ==
    /\ ValueAt(Node(w.obj, path).props,
               FirstProperty(Node(w.obj, path).props, "TRANSP", 1)) # TranspTransparent
    /\ icalcomponent_get_status(w, path) \notin {StatusCancelled, StatusTentative}

\* icalproperty_new_freebusy(period) with its FBTYPE parameter
FreebusyProperty(span, fbtype) ==
    [name |-> "FREEBUSY", value |-> <<>>,
     time |-> icaltime_from_timet(span.start), end |-> icaltime_from_timet(span.end),
     params |-> <<[name |-> "FBTYPE", kind |-> "STD", value |-> fbtype]>>]

\* dav_calendar_freebusy_callback(comp, span, freebusy): fb is the freebusy
\* component afterwards; "BUSY" and "BUSY-TENTATIVE" are the FBTYPE values
dav_calendar_freebusy_callback(w, path, span, fb) ==
    IF icalcomponent_is_busy(w, path)
    THEN [fb EXCEPT !.props = Append(@, FreebusyProperty(span, <<66, 85, 83, 89>>))]
    ELSE IF icalcomponent_get_status(w, path) = StatusTentative
    THEN [fb EXCEPT !.props =
            Append(@, FreebusyProperty(span, <<66, 85, 83, 89, 45, 84, 69, 78, 84,
                                               65, 84, 73, 86, 69>>))]
    ELSE fb

\* icalcomponent_foreach_recurrence(comp, *stt, *ett, callback, freebusy) on
\* the calendar object itself: r is the world after the expansion with the
\* event callback, whose flag tells whether the one instance was yielded
FreebusyEvent(w, fb, r) ==
    [w |-> [r EXCEPT !.match = w.match],
     fb |-> IF ~r.match THEN fb
            ELSE dav_calendar_freebusy_callback(
                    w, <<>>,
                    icaltime_span_new(GetTime(w, <<>>, "DTSTART", 0).time,
                                      GetEnd(w, <<>>, "DTEND", 0).time),
                    fb)]

\* the end of dav_calendar_freebusy_time_range: the freebusy component is
\* added to the object when it holds a FREEBUSY property, and freed otherwise
FreebusyDone(w, fb) ==
    IF FirstProperty(fb.props, "FREEBUSY", 1) # 0
    THEN [w EXCEPT !.obj.comps = Append(@, fb)]
    ELSE w

RECURSIVE FreebusyLoop(_, _, _, _, _)

\* end of the loop body: next is read from the iterator of the object and cp,
\* the first child left, is removed
FreebusyRemove(r, st, et) ==
    FreebusyLoop([r.w EXCEPT !.obj.comps = Tail(@),
                             !.citer[<<>>] = IF Len(r.w.obj.comps) > 1 THEN 1 ELSE 0],
                 r.fb, st, et, FALSE)

\* the for (cp) loop: every child but a VTIMEZONE is removed once it has been
\* looked at, so cp is the first child left.  At a VTIMEZONE the continue
\* statement assigns next to cp: an uninitialised variable in the first
\* iteration, and cp itself in a later one
FreebusyLoop(w, fb, st, et, first) ==
    IF w.obj.comps # <<>> /\ w.obj.comps[1].kind = "VTIMEZONE" /\ ~first
    THEN [w EXCEPT !.err = Hang]
    ELSE IF w.obj.comps # <<>> /\ w.obj.comps[1].kind = "VTIMEZONE" /\ w.garbage # <<>>
    THEN [w EXCEPT !.err = Crash]
    ELSE IF w.obj.comps = <<>> \/ w.obj.comps[1].kind = "VTIMEZONE"
    THEN FreebusyDone(w, fb)
    ELSE FreebusyRemove(
           IF w.obj.comps[1].kind = "VEVENT"
           THEN FreebusyEvent(w, fb,
                              ForeachRecurrence([w EXCEPT !.match = FALSE], <<>>, st, et))
           ELSE [w |-> w, fb |-> fb],
           st, et)

\* position of the first child of that kind at or after position i, or 0
RECURSIVE FirstOfKind(_, _, _)
FirstOfKind(comps, kind, i) ==
    IF i > Len(comps) THEN 0
    ELSE IF comps[i].kind = kind THEN i
    ELSE FirstOfKind(comps, kind, i + 1)

RemoveAt(seq, k) == SubSeq(seq, 1, k - 1) \o SubSeq(seq, k + 1, Len(seq))

\* the freebusy component of dav_calendar_freebusy_time_range: the VFREEBUSY
\* at position k of the object is taken out of it, or a new one is made from
\* the range when k is 0
FreebusyTake(w, k, st, et) ==
    IF k # 0
    THEN [w |-> [w EXCEPT !.obj.comps = RemoveAt(@, k)], fb |-> w.obj.comps[k]]
    ELSE [w |-> w,
          fb |-> [kind |-> "VFREEBUSY",
                  props |-> <<[name |-> "DTSTART", value |-> <<>>, time |-> st[1],
                               end |-> icaltime_null_time, params |-> <<>>],
                              [name |-> "DTEND", value |-> <<>>, time |-> et[1],
                               end |-> icaltime_null_time, params |-> <<>>]>>,
                  comps |-> <<>>]]

FreebusyBegin(r, st, et) == FreebusyLoop(r.w, r.fb, st[1], et[1], TRUE)

\* dav_calendar_freebusy_time_range(ctx, comp, stt, ett)
dav_calendar_freebusy_time_range(w, st, et) ==
    FreebusyBegin(FreebusyTake(w, FirstOfKind(w.obj.comps, "VFREEBUSY", 1), st, et),
                  st, et)

\* icalcomponent_merge_component(comp, tz) for a comp that has none of the
\* components of tz: they are moved to the end of comp
icalcomponent_merge_component(c, tz) == [c EXCEPT !.comps = @ \o tz.comps]

\* the free-busy-query case after the time-range child was resolved to r
FilterFreebusy(w, r) ==
    IF r.err # NoError THEN [w EXCEPT !.icalerrno = r.icalerrno, !.err = r.err]
    ELSE dav_calendar_freebusy_time_range([w EXCEPT !.icalerrno = r.icalerrno],
                                          r.stt, r.ett)

\* the calendar-query case from the comp-filter child on
FilterQuery(w, d) ==
    IF w.err # NoError THEN w
    ELSE IF d.filter[1].cf = <<>> THEN [w EXCEPT !.err = ValidFilter]
    ELSE dav_calendar_comp_filter(w, d.filter[1].cf, << <<>> >>, <<>>, <<>>)

\* the timezone child of a calendar-query: the object parsed from it is
\* merged into comp.  The timezone of the model parses without an error of
\* its own, which leaves icalerrno as it was.
FilterTimezone(w, d) ==
    IF d.timezone = <<>> THEN w
    ELSE IF w.icalerrno # ICAL_NO_ERROR THEN [w EXCEPT !.err = ValidFilter]
    ELSE [w EXCEPT !.obj = icalcomponent_merge_component(@, d.timezone[1])]

\* a dav_calendar_filter that takes every report for a calendar-multiget
FilterAlwaysMatches(w, d) == [w EXCEPT !.match = TRUE]

\* dav_calendar_filter(ctx, comp): no document, calendar-query,
\* calendar-multiget, free-busy-query, and a root element that is none of
\* them; the comp handed in is the root of the object
dav_calendar_filter(w, d) ==
    IF d.root = "<no doc>" THEN w
    ELSE IF d.root = "calendar-query"
    THEN IF d.filter = <<>> THEN [w EXCEPT !.err = ValidFilter]
         ELSE FilterQuery(FilterTimezone(w, d), d)
    ELSE IF d.root = "calendar-multiget" THEN [w EXCEPT !.match = TRUE]
    ELSE IF d.root = "free-busy-query"
    THEN IF d.tr = <<>> THEN [w EXCEPT !.err = ValidFilter]
         ELSE FilterFreebusy(
                w, dav_calendar_time_range(w.match, w.icalerrno, d.tr[1], <<>>, <<>>))
    ELSE [w EXCEPT !.err = ValidFilter]

(***************************************************************************)
(* The calendar-data projector.                                            *)
(*                                                                         *)
(* A comp element is a record [name, allprop, props, allcomp, comps]:      *)
(* allprop and allcomp tell whether it has such a child, props are its     *)
(* prop children [name, novalue] and comps its comp children, in document  *)
(* order.  The calendar-data element has the same shape.                   *)
(***************************************************************************)

\* the component c with its descendant at path replaced by n
RECURSIVE Replace(_, _, _)
Replace(c, path, n) ==
    IF path = <<>> THEN n
    ELSE [c EXCEPT !.comps[Head(path)] = Replace(c.comps[Head(path)], Tail(path), n)]

\* icalcomponent_remove_property(icomp, cp) and icalproperty_free(cp) for the
\* property at position k of the component at path
RemoveProperty(w, path, k) ==
    [w EXCEPT !.obj = Replace(w.obj, path,
                              [Node(w.obj, path) EXCEPT !.props = RemoveAt(@, k)])]

\* icalproperty_set_value(cp, icalvalue_new_from_string(icalvalue_isa(v), ""))
\* for the property at position k: a text has the empty value; no date or
\* date-time is made from "", the property keeps its value and
\* icalproperty_set_value reports its NULL argument in icalerrno
StripValue(w, path, k) ==
    IF icaltime_is_null_time(Node(w.obj, path).props[k].time)
    THEN [w EXCEPT !.obj = Replace(w.obj, path,
                                   [Node(w.obj, path) EXCEPT !.props[k].value = <<>>])]
    ELSE [w EXCEPT !.icalerrno = ICAL_BADARG_ERROR]

\* strcasecmp(novalue->value, "yes") == 0
IsYes(v) == v \in {"yes", "yeS", "yEs", "yES", "Yes", "YeS", "YEs", "YES"}

RECURSIVE StripLoop(_, _, _, _)

\* the loop body of dav_calendar_prop after the prop elements were scanned for
\* the name of the property at position k; a removal leaves next at k
StripScanned(w, parent, path, k, scan) ==
    IF scan.res = "noname" THEN [w EXCEPT !.err = ValidFilter]
    ELSE StripLoop(IF scan.res # "found" THEN RemoveProperty(w, path, k)
                   ELSE IF IsYes(parent.props[scan.idx].novalue)
                   THEN StripValue(w, path, k)
                   ELSE w,
                   parent, path, IF scan.res # "found" THEN k ELSE k + 1)

\* the for (cp) loop of dav_calendar_prop at the property at position k
StripLoop(w, parent, path, k) ==
    IF k > Len(Node(w.obj, path).props) THEN w
    ELSE StripScanned(w, parent, path, k,
                     ScanNames(parent.props, 1, <<Node(w.obj, path).props[k].name>>))

\* a dav_calendar_prop that strips the first property whatever its name is
StripFirst(w, parent, path) ==
    IF parent.allprop \/ parent.props = <<>> \/ Node(w.obj, path).props = <<>> THEN w
    ELSE RemoveProperty(w, path, 1)

\* dav_calendar_prop(ctx, parent, icomp) for the component at path
dav_calendar_prop(w, parent, path) ==
    IF parent.allprop \/ parent.props = <<>> THEN w
    ELSE StripLoop(w, parent, path, 1)

\* *icomp = NULL
NullComponent == [kind |-> "<NULL>", props |-> <<>>, comps |-> <<>>]

\* icalcomponent_remove_component(iparent, *icomp) for the component at path
RemoveComponent(w, path) ==
    [w EXCEPT !.obj =
        Replace(w.obj, icalcomponent_get_parent(path),
                [Node(w.obj, icalcomponent_get_parent(path))
                    EXCEPT !.comps = RemoveAt(@, path[Len(path)])])]

RECURSIVE dav_calendar_comp(_, _, _)
RECURSIVE PruneLoop(_, _, _, _)

\* end of the body of the for (cm) loop: r is the world after the child at
\* position k of n children was projected; a removal leaves next at k
PruneNext(r, el, path, k, n) ==
    IF r.err # NoError THEN r
    ELSE PruneLoop(r, el, path, IF Len(Node(r.obj, path).comps) < n THEN k ELSE k + 1)

\* the for (cm) loop of dav_calendar_comp at the child at position k, which
\* w reaches with the error of dav_calendar_prop
PruneLoop(w, el, path, k) ==
    IF w.err # NoError THEN w
    ELSE IF k > Len(Node(w.obj, path).comps) THEN w
    ELSE PruneNext(dav_calendar_comp(w, el, Append(path, k)), el, path, k,
                  Len(Node(w.obj, path).comps))

\* dav_calendar_comp after the comp elements were scanned for the kind of
\* the component
PruneScanned(w, parent, path, scan) ==
    IF scan.res = "noname" THEN [w EXCEPT !.err = ValidFilter]
    ELSE IF scan.res # "found"
    THEN IF path = <<>> THEN [w EXCEPT !.obj = NullComponent]
         ELSE RemoveComponent(w, path)
    ELSE PruneLoop(dav_calendar_prop(w, parent.comps[scan.idx], path),
                  parent.comps[scan.idx], path, 1)

\* dav_calendar_comp(ctx, parent, icomp) for the component at path
dav_calendar_comp(w, parent, path) ==
    IF parent.allcomp \/ parent.comps = <<>> THEN w
    ELSE PruneScanned(w, parent, path,
                     ScanNames(parent.comps, 1, <<Node(w.obj, path).kind>>))

\* lines 2048-2057 of dav_calendar_parse_icalendar_filter: the projector is
\* applied when the filter gave no error and ctx->elem is set
Project(w, el) ==
    IF w.err # NoError \/ el = <<>> THEN w
    ELSE dav_calendar_comp(w, el[1], <<>>)

\* lines 2039-2057 for a parsed object
FilterAndProject(w, d, el) == Project(dav_calendar_filter(w, d), el)

(***************************************************************************)
(* The calendar objects and report documents of the model.                 *)
(***************************************************************************)

SeqsUpTo(S, n) == UNION {[1..k -> S] : k \in 0..n}

Utc(y, mo, d, h) == MkTime(<<y, mo, d, h, 0, 0>>, FALSE, TRUE)

Pad2(n) == <<48 + (n \div 10), 48 + (n % 10)>>

\* icalproperty_get_value_as_string of a UTC date-time: yyyymmddThhmmssZ
TimeString(t) ==
    Pad2(t.year \div 100) \o Pad2(t.year % 100) \o Pad2(t.month) \o Pad2(t.day)
        \o <<84>> \o Pad2(t.hour) \o Pad2(t.minute) \o Pad2(t.second) \o <<90>>

ParamXFoo == [name |-> "X-FOO", kind |-> "X", value |-> <<65>>]
ParamPartstat == [name |-> "PARTSTAT", kind |-> "STD", value |-> <<66>>]

DateProp(n, t, params) ==
    [name |-> n, value |-> TimeString(t), time |-> t, end |-> icaltime_null_time,
     params |-> params]

TextProp(n, v, params) ==
    [name |-> n, value |-> v, time |-> icaltime_null_time,
     end |-> icaltime_null_time, params |-> params]

\* 20240101T120000Z lies in the range of RangeElem, 20240105T120000Z does not
DtstartIn == DateProp("DTSTART", Utc(2024, 1, 1, 12), <<>>)
DtstartOut == DateProp("DTSTART", Utc(2024, 1, 5, 12), <<ParamXFoo>>)
Summary == TextProp("SUMMARY", <<65>>, <<>>)
Attendee == TextProp("ATTENDEE", <<97, 64>>, <<ParamPartstat, ParamXFoo>>)

Component(k, props, comps) == [kind |-> k, props |-> props, comps |-> comps]

Valarm == Component("VALARM", <<>>, <<>>)

SubComponents ==
    {Component("VEVENT", <<DtstartIn>>, <<>>),
     Component("VEVENT", <<DtstartOut, Summary>>, <<Valarm, Valarm>>),
     Component("VEVENT", <<Summary, Attendee>>, <<>>),
     Component("VTODO", <<>>, <<>>)}

\* objects with one child more than MaxComps: two events without a summary
\* followed by any third child
LongObjects ==
    {Component("VCALENDAR", <<>>,
               [i \in 1..MaxComps + 1 |->
                  IF i <= MaxComps THEN Component("VEVENT", <<DtstartIn>>, <<>>) ELSE c]) :
       c \in SubComponents}

Objects ==
    {Component("VCALENDAR", <<>>, cs) : cs \in SeqsUpTo(SubComponents, MaxComps)}
    \cup LongObjects

\* the paths of the components of any object of the model
Paths == {<<>>} \cup {<<i>> : i \in 1..MaxComps + 2}
            \cup {<<i, j>> : i \in 1..MaxComps + 2, j \in 1..2}

NoIterators == [p \in Paths |-> 0]

RangeElem ==
    [start |-> Date20240101 \o <<"T">> \o Midnight \o <<"Z">>,
     end |-> Date20240102 \o <<"T">> \o Midnight \o <<"Z">>]

TextMatchA == [cdata |-> <<65>>, collation |-> DAV_CALENDAR_COLLATION_ASCII_CASEMAP,
               negate |-> NoAttr]

ParamFilter(n, ind, tm) == [name |-> n, ind |-> ind, tm |-> tm]

ParamFilterLists ==
    {<<>>,
     <<ParamFilter("X-FOO", FALSE, <<>>)>>,
     <<ParamFilter("X-BAR", TRUE, <<>>)>>,
     <<ParamFilter("X-FOO", FALSE, <<TextMatchA>>)>>,
     <<ParamFilter("PARTSTAT", FALSE, <<>>)>>,
     <<ParamFilter(NoAttr, FALSE, <<>>)>>}

PropFilter(n, ind, tr, tm, prm) ==
    [name |-> n, ind |-> ind, tr |-> tr, tm |-> tm, prm |-> prm]

PropFilters ==
    {PropFilter(n, TRUE, <<>>, <<>>, <<>>) : n \in {"DTSTART", "SUMMARY"}}
    \cup {PropFilter(n, FALSE, tr, <<>>, <<>>) :
            n \in {"DTSTART", "SUMMARY", NoAttr}, tr \in {<<>>, <<RangeElem>>}}
    \cup {PropFilter("SUMMARY", FALSE, <<>>, <<tm>>, <<>>) :
            tm \in {TextMatchA, [TextMatchA EXCEPT !.cdata = <<66>>],
                    [TextMatchA EXCEPT !.negate = "maybe"]}}
    \cup {PropFilter("DTSTART", FALSE, tr, <<>>, <<ParamFilter("X-FOO", FALSE, <<>>)>>) :
            tr \in {<<>>, <<RangeElem>>}}
    \cup {PropFilter("ATTENDEE", FALSE, <<>>, <<>>, prm) : prm \in ParamFilterLists}

\* lists of sibling prop-filters: none, one, or a first one followed by a
\* second that has no test of its own or no name
PropFilterLists ==
    {<<>>} \cup {<<f>> : f \in PropFilters}
    \cup {<<f, g>> : f \in {PropFilter("DTSTART", FALSE, tr, <<>>, <<>>) :
                             tr \in {<<>>, <<RangeElem>>}},
                     g \in {PropFilter(n, FALSE, <<>>, <<>>, <<>>) :
                             n \in {"SUMMARY", NoAttr}}}

CompFilter(n, ind, tr, pf, cf) ==
    [name |-> n, ind |-> ind, tr |-> tr, pf |-> pf, cf |-> cf]

AlarmFilterLists ==
    {<<>>, <<CompFilter("VALARM", FALSE, <<>>, <<>>, <<>>)>>,
     <<CompFilter("VALARM", TRUE, <<>>, <<>>, <<>>)>>}

SubCompFilters ==
    {CompFilter(n, TRUE, <<>>, <<>>, <<>>) : n \in {"VEVENT", "VTODO"}}
    \cup {CompFilter("VEVENT", FALSE, tr, pf, <<>>) :
            tr \in {<<>>, <<RangeElem>>}, pf \in PropFilterLists}
    \cup {CompFilter("VTODO", FALSE, tr, pf, <<>>) :
            tr \in {<<>>, <<RangeElem>>},
            pf \in {<<>>, <<PropFilter("SUMMARY", TRUE, <<>>, <<>>, <<>>)>>}}
    \cup {CompFilter("VEVENT", FALSE, <<>>, <<>>, cf) : cf \in AlarmFilterLists}
    \cup {CompFilter(NoAttr, FALSE, <<>>, <<>>, <<>>)}

\* the comp-filter children of the VCALENDAR comp-filter: none, one, or a
\* VEVENT comp-filter followed by a sibling
SubCompFilterLists ==
    {<<>>} \cup {<<f>> : f \in SubCompFilters}
    \cup {<<CompFilter("VEVENT", FALSE, <<>>, <<>>, <<>>), g>> :
            g \in {CompFilter(n, i, <<>>, <<>>, <<>>) :
                     n \in {"VTODO", NoAttr}, i \in BOOLEAN}}

\* the VCALENDAR comp-filter, with a time-range of its own only over
\* comp-filters that have no prop-filters
TopCompFilters ==
    {CompFilter("VCALENDAR", FALSE, <<>>, <<>>, cf) : cf \in SubCompFilterLists}
    \cup {CompFilter("VCALENDAR", FALSE, <<RangeElem>>, <<>>, cf) :
            cf \in {l \in SubCompFilterLists : \A i \in DOMAIN l : l[i].pf = <<>>}}
    \cup {CompFilter("VCALENDAR", TRUE, <<>>, <<>>, <<>>),
          CompFilter("VEVENT", TRUE, <<>>, <<>>, <<>>),
          CompFilter(NoAttr, FALSE, <<>>, <<>>, <<>>)}

\* the iCalendar object of a timezone element
Timezone ==
    Component("VCALENDAR", <<>>,
              <<Component("VTIMEZONE", <<TextProp("TZID", <<65>>, <<>>)>>, <<>>)>>)

\* a document is [root, filter, timezone, tr]: the name of the root element,
\* its filter child (a filter element holding its comp-filter children), its
\* timezone child (the object parsed from it) and its time-range child, each
\* <<>> when there is none
Doc(root, filter, timezone, tr) ==
    [root |-> root, filter |-> filter, timezone |-> timezone, tr |-> tr]

Docs ==
    {Doc("calendar-query", <<[cf |-> <<f>>]>>, <<>>, <<>>) : f \in TopCompFilters}
    \cup {Doc("calendar-query", <<[cf |-> <<f>>]>>, <<Timezone>>, <<>>) :
            f \in {CompFilter("VCALENDAR", FALSE, <<>>, <<>>, cf) :
                     cf \in {<<>>, <<CompFilter("VEVENT", FALSE, <<>>, <<>>, <<>>)>>,
                             <<CompFilter("VTODO", FALSE, <<>>, <<>>, <<>>)>>}}}
    \cup {Doc("calendar-query", <<>>, <<>>, <<>>),
          Doc("calendar-query", <<[cf |-> <<>>]>>, <<>>, <<>>),
          Doc("calendar-query", <<[cf |-> <<>>]>>, <<Timezone>>, <<>>),
          Doc("calendar-multiget", <<>>, <<>>, <<>>),
          Doc("free-busy-query", <<>>, <<>>, <<>>),
          Doc("free-busy-query", <<>>, <<>>, <<RangeElem>>),
          Doc("sync-collection", <<>>, <<>>, <<>>),
          Doc("<no doc>", <<>>, <<>>, <<>>)}

NoDoc == Doc("<no doc>", <<>>, <<>>, <<>>)

NoObject == Component("VCALENDAR", <<>>, <<>>)

\* a comp element, and the calendar-data element holding comp elements
Sel(name, allprop, props, allcomp, comps) ==
    [name |-> name, allprop |-> allprop, props |-> props, allcomp |-> allcomp,
     comps |-> comps]

PropSel(name, novalue) == [name |-> name, novalue |-> novalue]

CalendarData(comps) == Sel(NoAttr, FALSE, <<>>, FALSE, comps)

\* calendar-data elements of the requests: the DTSTART of the events, and the
\* events without their calendar
DataElems ==
    {CalendarData(<<Sel("VCALENDAR", FALSE, <<>>, FALSE,
                        <<Sel("VEVENT", FALSE, <<PropSel("DTSTART", NoAttr)>>,
                              FALSE, <<>>)>>)>>),
     CalendarData(<<Sel("VEVENT", TRUE, <<>>, TRUE, <<>>)>>)}

\* the documents whose requests are explored with a calendar-data element
DataDocs ==
    {d \in Docs : d.root \in {"calendar-multiget", "<no doc>"} \/ d.timezone # <<>>}

\* NULL, an invalid address, or a string left on the stack
GarbageValues == {<<>>, Wild, <<"X-FOO">>}

\* the document has a param-filter, whose matcher reads an uninitialised
\* variable
HasParamFilter(d) ==
    \E i \in DOMAIN d.filter : \E j \in DOMAIN d.filter[i].cf :
        \E k \in DOMAIN d.filter[i].cf[j].cf :
            \E l \in DOMAIN d.filter[i].cf[j].cf[k].pf :
                d.filter[i].cf[j].cf[k].pf[l].prm # <<>>

\* no time-range test has been asked for
NoTarget == [path |-> <<>>, prop |-> 0]

\* the world in which dav_calendar_filter evaluates object o
World(o, m, e, g) ==
    [obj |-> o, citer |-> NoIterators, match |-> m, icalerrno |-> e,
     err |-> NoError, garbage |-> g]

InitTime ==
    /\ pc = "ready"
    /\ match \in BOOLEAN
    /\ pre = match
    /\ err = NoError
    /\ icalerrno = ICAL_NO_ERROR
    /\ text_match = NoTextMatch
    /\ text = <<>>
    /\ time_range = NoTimeRange
    /\ stt = <<>>
    /\ ett = <<>>
    /\ doc = NoDoc
    /\ comp = NoObject
    /\ citer = NoIterators
    /\ garbage = <<>>
    /\ nobj = 0
    /\ target = NoTarget
    /\ elem = <<>>
    /\ parsed = NoObject
    /\ out = <<>>
    /\ AuxInit

\* a caller whose stt and ett are still NULL resolves a time-range element
TimeRange ==
    \E tr \in TimeRangeElems :
        LET r == dav_calendar_time_range(match, icalerrno, tr, <<>>, <<>>)
        IN /\ time_range' = tr
           /\ stt' = r.stt
           /\ ett' = r.ett
           /\ err' = r.err
           /\ icalerrno' = r.icalerrno
           /\ pre' = match
           /\ pc' = "done"
           /\ UNCHANGED <<match, textVars, filterVars, rangeVars, dataVars, auxVars>>

NextTime == TimeRange

SpecTime == InitTime /\ [][NextTime]_vars

InitText ==
    /\ pc = "ready"
    /\ match \in BOOLEAN
    /\ pre = match
    /\ err = NoError
    /\ icalerrno = ICAL_NO_ERROR
    /\ text_match \in TextMatchElems
    /\ text \in StringsUpTo(MaxTextLen)
    /\ time_range = NoTimeRange
    /\ stt = <<>>
    /\ ett = <<>>
    /\ doc = NoDoc
    /\ comp = NoObject
    /\ citer = NoIterators
    /\ garbage = <<>>
    /\ nobj = 0
    /\ target = NoTarget
    /\ elem = <<>>
    /\ parsed = NoObject
    /\ out = <<>>
    /\ AuxInit

\* a caller evaluates the text-match element against the candidate
TextMatch ==
    /\ pc = "ready"
    /\ LET r == dav_calendar_text_match(match, text_match, text)
       IN /\ match' = r.match
          /\ err' = r.err
    /\ pre' = match
    /\ pc' = "done"
    /\ UNCHANGED <<icalerrno, textVars, timeVars, filterVars, rangeVars, dataVars, auxVars>>

NextText == TextMatch

SpecText == InitText /\ [][NextText]_vars



InitFilter ==
    /\ pc = "ready"
    /\ match = FALSE
    /\ pre = FALSE
    /\ err = NoError
    /\ icalerrno = ICAL_NO_ERROR
    /\ text_match = NoTextMatch
    /\ text = <<>>
    /\ time_range = NoTimeRange
    /\ stt = <<>>
    /\ ett = <<>>
    /\ doc \in Docs
    /\ comp = NoObject
    /\ citer = NoIterators
    /\ garbage \in IF HasParamFilter(doc) \/ doc.tr # <<>> THEN GarbageValues ELSE {<<>>}
    /\ nobj = 0
    /\ target = NoTarget
    /\ elem \in IF doc \in DataDocs THEN {<<>>} \cup {<<e>> : e \in DataElems}
                ELSE {<<>>}
    /\ parsed = NoObject
    /\ out = <<>>
    /\ AuxInit

\* dav_calendar_parse_icalendar_filter reads the lines of the next calendar
\* object of the resource: icalparser_add_line leaves icalerrno as it finds
\* it, so an indicator left set fails the first line; otherwise the last line
\* completes the object, the filter is applied to it, the projector when the
\* request has a calendar-data element, and the object is put into ctx->comp.
\* An error ends the reading.  A projector that frees the object leaves
\* ctx->comp NULL: it frees every object of the resource, all of them being
\* VCALENDAR components.
ParseObject ==
    /\ pc \in {"ready", "done"}
    /\ nobj < MaxObjects
    /\ \E o \in Objects :
          \E w \in {IF icalerrno # ICAL_NO_ERROR
                    THEN [World(NoObject, match, icalerrno, garbage)
                             EXCEPT !.err = InternalError]
                    ELSE FilterAndProject(World(o, match, icalerrno, garbage), doc,
                                          elem)} :
             /\ comp' = w.obj
             /\ parsed' = IF icalerrno # ICAL_NO_ERROR THEN NoObject ELSE o
             /\ out' = IF w.err # NoError \/ w.obj = NullComponent THEN out
                       ELSE Append(out, w.obj)
             /\ citer' = w.citer
             /\ match' = w.match
             /\ icalerrno' = w.icalerrno
             /\ err' = w.err
             /\ pc' = IF w.err = NoError THEN "done" ELSE "failed"
    /\ pre' = match
    /\ nobj' = nobj + 1
    /\ UNCHANGED <<textVars, timeVars, doc, garbage, rangeVars, elem, auxVars>>

\* dav_calendar_create_parse_icalendar_filter: the context is set up for the
\* next resource of the request
CreateFilter ==
    /\ pc \in {"done", "failed"}
    /\ err # Hang
    /\ match' = FALSE
    /\ pre' = match
    /\ err' = NoError
    /\ comp' = NoObject
    /\ citer' = NoIterators
    /\ nobj' = 0
    /\ parsed' = NoObject
    /\ out' = <<>>
    /\ pc' = "ready"
    /\ UNCHANGED <<icalerrno, textVars, timeVars, doc, garbage, rangeVars, elem, auxVars>>

NextFilter == ParseObject \/ CreateFilter

SpecFilter == InitFilter /\ [][NextFilter]_vars

(***************************************************************************)
(* The time-range tests on their own: a component or one of its properties *)
(* against the range from 20240101T000000Z to 20240102T000000Z.            *)
(***************************************************************************)

\* a DATE value
Day(y, mo, d) == MkTime(<<y, mo, d, 0, 0, 0>>, TRUE, FALSE)

\* icalproperty_get_value_as_string of a DATE: yyyymmdd
DayString(t) ==
    Pad2(t.year \div 100) \o Pad2(t.year % 100) \o Pad2(t.month) \o Pad2(t.day)

DayProp(n, t) ==
    [name |-> n, value |-> DayString(t), time |-> t, end |-> icaltime_null_time,
     params |-> <<>>]

\* a FREEBUSY property of one period
PeriodProp(s, e) ==
    [name |-> "FREEBUSY", value |-> TimeString(s) \o <<47>> \o TimeString(e),
     time |-> s, end |-> e, params |-> <<>>]

\* a duration of d days and h hours
Duration(d, h) ==
    [year |-> 0, month |-> 0, day |-> d, hour |-> h, minute |-> 0, second |-> 0,
     is_date |-> FALSE, is_utc |-> FALSE]

\* a DURATION or a relative TRIGGER
DurationProp(n, d) ==
    [name |-> n, value |-> <<80>>, time |-> d, end |-> icaltime_null_time,
     params |-> <<>>]

\* before the range, at its start, inside, at its end, after it
Before == Utc(2023, 12, 31, 12)
AtStart == Utc(2024, 1, 1, 0)
Inside == Utc(2024, 1, 1, 12)
AtEnd == Utc(2024, 1, 2, 0)
After == Utc(2024, 1, 2, 12)

RangeTimes == {Before, AtStart, Inside, AtEnd, After}

RangeDays == {Day(2023, 12, 31), Day(2024, 1, 1), Day(2024, 1, 2)}

\* the properties the time-range test of a prop-filter is defined for
TimeNames ==
    {"COMPLETED", "CREATED", "DTEND", "DTSTAMP", "DTSTART", "DUE", "LAST-MODIFIED"}

\* pairs of times, the first before the second
Periods ==
    {<<Before, AtStart>>, <<Before, Inside>>, <<Before, After>>,
     <<AtStart, AtEnd>>, <<Inside, AtEnd>>, <<Inside, After>>, <<AtEnd, After>>}

\* the VALARMs: an absolute trigger, or a relative one (an offset of nothing,
\* twelve hours or a day), alone or repeated once after twelve hours
Alarms ==
    {Component("VALARM", <<DateProp("TRIGGER", t, <<>>)>>, <<>>) : t \in RangeTimes}
    \cup {Component("VALARM", <<DurationProp("TRIGGER", d)>> \o rest, <<>>) :
            d \in {Duration(0, 0), Duration(0, 12), Duration(1, 0)},
            rest \in {<<>>, <<DurationProp("DURATION", Duration(0, 12)),
                             TextProp("REPEAT", <<49>>, <<>>)>>}}
    \cup {Component("VALARM", <<>>, <<>>)}

RangeComponents ==
    {Component(IF n = "DUE" THEN "VTODO" ELSE "VEVENT",
               <<DateProp(n, t, <<>>)>>, <<>>) : n \in TimeNames, t \in RangeTimes}
    \cup {Component("VEVENT", <<DateProp("DTSTART", t, <<>>),
                                DateProp("EXDATE", t, <<>>)>>, <<>>) : t \in RangeTimes}
    \cup {Component("VEVENT", <<DateProp("DTSTART", Inside, <<>>),
                                DateProp("EXDATE", After, <<>>)>>, <<>>)}
    \cup {Component(k, <<DayProp("DTSTART", d)>>, <<>>) :
            k \in {"VEVENT", "VTODO"}, d \in RangeDays}
    \cup {Component(k, <<DateProp("DTSTART", pd[1], <<>>),
                         DateProp("DTEND", pd[2], <<>>)>>, <<>>) :
            k \in {"VEVENT", "VFREEBUSY"}, pd \in Periods}
    \cup {Component(k, <<>>, <<>>) : k \in {"VEVENT", "VTODO", "VFREEBUSY"}}
    \cup {Component("VFREEBUSY", <<PeriodProp(pd[1], pd[2])>>, <<>>) : pd \in Periods}
    \cup {Component("VFREEBUSY", <<PeriodProp(Before, AtStart),
                                   PeriodProp(pd[1], pd[2])>>, <<>>) :
            pd \in {<<Inside, AtEnd>>, <<AtEnd, After>>}}
    \cup {Component("VEVENT", <<DateProp("DTSTART", t, <<>>)>>, <<a>>) :
            t \in {Before, Inside}, a \in Alarms}

RangeObjects == {Component("VCALENDAR", <<>>, <<c>>) : c \in RangeComponents}

\* what a time-range test of object o can be asked about: its component, the
\* VALARM in it, or a property of its component
Targets(o) ==
    {[path |-> <<1>>, prop |-> 0]}
    \cup {[path |-> <<1, 1>>, prop |-> 0] : i \in DOMAIN o.comps[1].comps}
    \cup {[path |-> <<1>>, prop |-> i] : i \in DOMAIN o.comps[1].props}

\* the caller has resolved the time-range element
InitRange ==
    /\ pc = "ready"
    /\ match \in BOOLEAN
    /\ pre = match
    /\ err = NoError
    /\ icalerrno = ICAL_NO_ERROR
    /\ text_match = NoTextMatch
    /\ text = <<>>
    /\ time_range = RangeElem
    /\ stt = dav_calendar_time_range(FALSE, ICAL_NO_ERROR, RangeElem, <<>>, <<>>).stt
    /\ ett = dav_calendar_time_range(FALSE, ICAL_NO_ERROR, RangeElem, <<>>, <<>>).ett
    /\ doc = NoDoc
    /\ comp \in RangeObjects
    /\ citer = NoIterators
    /\ garbage = <<>>
    /\ nobj = 0
    /\ target \in Targets(comp)
    /\ elem = <<>>
    /\ parsed = NoObject
    /\ out = <<>>
    /\ AuxInit

\* dav_calendar_prop_filter hands the property it stands on to
\* dav_calendar_prop_time_range
PropTimeRange ==
    /\ pc = "ready"
    /\ target.prop # 0
    /\ LET r == dav_calendar_prop_time_range(
                    World(comp, match, icalerrno, garbage), target.path,
                    target.prop, target.prop, stt, ett)
       IN /\ match' = r.w.match
          /\ icalerrno' = r.w.icalerrno
          /\ citer' = r.w.citer
    /\ pre' = match
    /\ pc' = "done"
    /\ UNCHANGED <<err, textVars, timeVars, doc, comp, garbage, nobj, rangeVars, dataVars, auxVars>>

\* dav_calendar_comp_filter hands the component to dav_calendar_comp_time_range
CompTimeRange ==
    /\ pc = "ready"
    /\ target.prop = 0
    /\ LET w == dav_calendar_comp_time_range(
                    World(comp, match, icalerrno, garbage), target.path, stt, ett)
       IN /\ match' = w.match
          /\ icalerrno' = w.icalerrno
          /\ citer' = w.citer
    /\ pre' = match
    /\ pc' = "done"
    /\ UNCHANGED <<err, textVars, timeVars, doc, comp, garbage, nobj, rangeVars, dataVars, auxVars>>

NextRange == PropTimeRange \/ CompTimeRange

SpecRange == InitRange /\ [][NextRange]_vars

(***************************************************************************)
(* The projector on its own: a parsed object against a calendar-data       *)
(* element whose one comp child names VCALENDAR.                           *)
(***************************************************************************)

\* the prop children of a comp element: none, named ones in either order,
\* one that blanks the value of a text or of a date-time, one without a name
PropSels ==
    {<<>>,
     <<PropSel("DTSTART", NoAttr)>>,
     <<PropSel("SUMMARY", "yes"), PropSel("DTSTART", "no")>>,
     <<PropSel("DTSTART", "YES")>>,
     <<PropSel("ATTENDEE", NoAttr), PropSel(NoAttr, NoAttr)>>}

AlarmSels == {<<>>, <<Sel("VALARM", TRUE, <<>>, TRUE, <<>>)>>}

EventSels ==
    {Sel("VEVENT", ap, props, ac, comps) :
       ap \in BOOLEAN, props \in PropSels, ac \in BOOLEAN, comps \in AlarmSels}

CalendarSels ==
    {Sel("VCALENDAR", FALSE, <<>>, ac, comps) :
       ac \in BOOLEAN,
       comps \in {<<>>, <<Sel("VTODO", TRUE, <<>>, TRUE, <<>>)>>,
                  <<Sel(NoAttr, TRUE, <<>>, TRUE, <<>>)>>}
                 \cup {<<e>> : e \in EventSels}
                 \cup {<<Sel("VTODO", TRUE, <<>>, TRUE, <<>>), e>> : e \in EventSels}}

InitProject ==
    /\ pc = "ready"
    /\ match \in BOOLEAN
    /\ pre = match
    /\ err = NoError
    /\ icalerrno = ICAL_NO_ERROR
    /\ text_match = NoTextMatch
    /\ text = <<>>
    /\ time_range = NoTimeRange
    /\ stt = <<>>
    /\ ett = <<>>
    /\ doc = NoDoc
    /\ comp \in Objects
    /\ citer = NoIterators
    /\ garbage = <<>>
    /\ nobj = 1
    /\ target = NoTarget
    /\ elem \in {<<CalendarData(<<c>>)>> : c \in CalendarSels}
    /\ parsed = comp
    /\ out = <<>>
    /\ AuxInit

\* dav_calendar_parse_icalendar_filter hands the object to dav_calendar_comp
\* and, without an error, puts it into ctx->comp
ProjectObject ==
    /\ pc = "ready"
    /\ \E w \in {Project(World(comp, match, icalerrno, garbage), elem)} :
          /\ comp' = w.obj
          /\ match' = w.match
          /\ icalerrno' = w.icalerrno
          /\ err' = w.err
          /\ out' = IF w.err # NoError \/ w.obj = NullComponent THEN out
                    ELSE Append(out, w.obj)
          /\ pc' = IF w.err = NoError THEN "done" ELSE "failed"
    /\ pre' = match
    /\ UNCHANGED <<textVars, timeVars, doc, citer, garbage, nobj, rangeVars, elem,
                   parsed, auxVars>>

\* dav_calendar_comp is applied once more to the object it has returned
ProjectAgain ==
    /\ pc = "done"
    /\ \E w \in {Project(World(comp, match, icalerrno, garbage), elem)} :
          /\ comp' = w.obj
          /\ match' = w.match
          /\ icalerrno' = w.icalerrno
          /\ err' = w.err
    /\ pc' = "again"
    /\ pre' = match
    /\ UNCHANGED <<textVars, timeVars, doc, citer, garbage, nobj, rangeVars, dataVars, auxVars>>

NextProject == ProjectObject \/ ProjectAgain

SpecProject == InitProject /\ [][NextProject]_vars

(***************************************************************************)
(* The free-busy aggregation on its own: a free-busy-query with a          *)
(* time-range is evaluated on objects whose events carry TRANSP and STATUS *)
(* properties and which may hold VTODO, VTIMEZONE and VFREEBUSY children.  *)
(***************************************************************************)

\* "OPAQUE" and "CONFIRMED"
TranspOpaque == <<79, 80, 65, 81, 85, 69>>
StatusConfirmed == <<67, 79, 78, 70, 73, 82, 77, 69, 68>>

TranspValues == {<<>>, TranspOpaque, TranspTransparent}
StatusValues == {<<>>, StatusConfirmed, StatusTentative, StatusCancelled}

\* a VEVENT starting at t with the TRANSP and STATUS values given, <<>> for
\* a property that is absent
FreebusyVevent(t, transp, status) ==
    Component("VEVENT",
              <<DateProp("DTSTART", t, <<>>)>>
                \o (IF transp = <<>> THEN <<>> ELSE <<TextProp("TRANSP", transp, <<>>)>>)
                \o (IF status = <<>> THEN <<>> ELSE <<TextProp("STATUS", status, <<>>)>>),
              <<>>)

FreebusyChildren ==
    {FreebusyVevent(t, tp, st) : t \in {Inside, After}, tp \in TranspValues,
                                 st \in StatusValues}
    \cup {Component("VTODO", <<Summary>>, <<>>),
          Component("VTIMEZONE", <<TextProp("TZID", <<65>>, <<>>)>>, <<>>),
          Component("VFREEBUSY", <<>>, <<>>)}

FreebusyObjects ==
    {Component("VCALENDAR", <<>>, cs) : cs \in SeqsUpTo(FreebusyChildren, MaxComps)}

FreebusyDoc == Doc("free-busy-query", <<>>, <<>>, <<RangeElem>>)

InitFreebusy ==
    /\ pc = "ready"
    /\ match = FALSE
    /\ pre = match
    /\ err = NoError
    /\ icalerrno = ICAL_NO_ERROR
    /\ text_match = NoTextMatch
    /\ text = <<>>
    /\ time_range = NoTimeRange
    /\ stt = <<>>
    /\ ett = <<>>
    /\ doc = FreebusyDoc
    /\ comp \in FreebusyObjects
    /\ citer = NoIterators
    /\ garbage \in GarbageValues
    /\ nobj = 1
    /\ target = NoTarget
    /\ elem = <<>>
    /\ parsed = comp
    /\ out = <<>>
    /\ AuxInit

\* dav_calendar_parse_icalendar_filter hands the object to dav_calendar_filter
\* under the free-busy-query and, without an error, puts it into ctx->comp;
\* a walk that does not return leaves the request without a response
AggregateObject ==
    /\ pc = "ready"
    /\ \E w \in {FilterAndProject(World(comp, match, icalerrno, garbage), doc, elem)} :
          /\ comp' = w.obj
          /\ match' = w.match
          /\ icalerrno' = w.icalerrno
          /\ err' = w.err
          /\ out' = IF w.err # NoError \/ w.obj = NullComponent THEN out
                    ELSE Append(out, w.obj)
          /\ pc' = IF w.err = NoError THEN "done" ELSE "failed"
    /\ pre' = match
    /\ UNCHANGED <<textVars, timeVars, doc, citer, garbage, nobj, rangeVars, elem,
                   parsed, auxVars>>

NextFreebusy == AggregateObject

SpecFreebusy == InitFreebusy /\ [][NextFreebusy]_vars

(***************************************************************************)
(* The walk of a report over the members of a collection.  The provider's  *)
(* walk calls the callback for every resource in turn and gives up at the  *)
(* first call that returns an error.                                       *)
(***************************************************************************)

\* resources in the walked collection
MaxMembers == 3

\* the filter evaluation is not in use
CoreIdle ==
    /\ match = FALSE
    /\ pre = FALSE
    /\ err = NoError
    /\ icalerrno = ICAL_NO_ERROR
    /\ text_match = NoTextMatch
    /\ text = <<>>
    /\ time_range = NoTimeRange
    /\ stt = <<>>
    /\ ett = <<>>
    /\ doc = NoDoc
    /\ comp = NoObject
    /\ citer = NoIterators
    /\ garbage = <<>>
    /\ nobj = 0
    /\ target = NoTarget
    /\ elem = <<>>
    /\ parsed = NoObject
    /\ out = <<>>

coreVars ==
    <<match, pre, err, icalerrno, textVars, timeVars, filterVars, rangeVars, dataVars>>

\* a resource of the walk: whether it is a collection, whether the method
\* precondition hook leaves no error, whether its repository has a
\* handle_get hook, how the delivery of its body through the parse filter
\* ends ("ok", "read" for a body that cannot be read, "parse" for a body
\* that yields no calendar object, "filter" for an error of the filter
\* evaluation), and whether its property database can be opened
Resource(collection, precondition, handle_get, delivery, propdb) ==
    [collection |-> collection, precondition |-> precondition,
     handle_get |-> handle_get, delivery |-> delivery, propdb |-> propdb]

Resources ==
    {Resource(FALSE, TRUE, TRUE, "ok", TRUE),
     Resource(TRUE, TRUE, TRUE, "ok", TRUE),
     Resource(FALSE, FALSE, TRUE, "ok", TRUE),
     Resource(FALSE, TRUE, TRUE, "read", TRUE),
     Resource(FALSE, TRUE, FALSE, "read", TRUE),
     Resource(FALSE, TRUE, TRUE, "parse", TRUE),
     Resource(FALSE, TRUE, FALSE, "filter", TRUE),
     Resource(FALSE, TRUE, TRUE, "ok", FALSE)}

\* what a callback hands back: the dav_error it returns, the messages it
\* has logged, whether ctx->comp is set afterwards and the propstat of the
\* response it has streamed, <<>> for no response
Outcome(ret, log, set, streamed) ==
    [ret |-> ret, log |-> log, comp |-> set, streamed |-> streamed]

\* the end of dav_calendar_get_walker: ctx->comp is looked at, the error at
\* hand is logged and NULL is returned
GetParsed(e, set) ==
    Outcome(NoError,
            IF ~set THEN <<"Unable to parse calendar.">>
            ELSE IF e # NoError THEN <<e>> ELSE <<>>,
            set, <<>>)

\* a callback that hands the error of a failing resource back to the walk
ReturnsError(res, set) ==
    IF res.collection \/ (res.precondition /\ res.delivery = "ok" /\ res.propdb)
    THEN Outcome(NoError, <<>>, set \/ ~res.collection, <<>>)
    ELSE Outcome(InternalError, <<>>, set, <<>>)

\* dav_calendar_get_walker(wres, calltype) with ctx->comp set or not on entry
dav_calendar_get_walker(res, set) ==
    IF res.collection THEN Outcome(NoError, <<>>, set, <<>>)
    ELSE IF ~res.precondition
    THEN Outcome(NoError, <<"method precondition">>, set, <<>>)
    ELSE GetParsed(IF res.delivery \in {"read", "filter"}
                   THEN "Unable to read calendar." ELSE NoError,
                   set \/ res.delivery = "ok")

\* dav_calendar_report_walker(wres, calltype) of a report that names its
\* properties: a resource whose property database cannot be opened is
\* answered with the 404 propstat
dav_calendar_report_walker(res, set) ==
    IF res.collection THEN Outcome(NoError, <<>>, set, <<>>)
    ELSE IF ~res.precondition
    THEN Outcome(NoError, <<"method precondition">>, set, <<>>)
    ELSE IF ~res.propdb THEN Outcome(NoError, <<>>, set, <<"propstat_404">>)
    ELSE Outcome(NoError, <<>>, set, <<"propstat">>)

InitWalk ==
    /\ pc = "walking"
    /\ CoreIdle
    /\ members \in SeqsUpTo(Resources, MaxMembers) \ {<<>>}
    /\ walker \in {"get", "report"}
    /\ wpos = 1
    /\ visited = <<>>
    /\ wret = NoError
    /\ wlog = <<>>
    /\ responses = <<>>
    /\ ProvIdle
    /\ LineIdle
    /\ RecurIdle

\* the provider's walk with the callback func: the callback is called for
\* the resource at wpos and its outcome o decides whether the walk goes on;
\* ctx->comp is set once an object has been delivered
WalkOn(o) ==
    /\ visited' = Append(visited, wpos)
    /\ wret' = o.ret
    /\ wlog' = wlog \o o.log
    /\ responses' = responses \o o.streamed
    /\ out' = IF o.comp THEN <<NoObject>> ELSE <<>>
    /\ wpos' = wpos + 1
    /\ pc' = IF o.ret # NoError THEN "aborted"
             ELSE IF wpos = Len(members) THEN "walked"
             ELSE "walking"
    /\ UNCHANGED <<match, pre, err, icalerrno, textVars, timeVars, filterVars,
                   rangeVars, elem, parsed, members, walker, provVars, lineVars,
                   recurVars>>

\* one step of the walk of the free-busy-query report
GetStep ==
    /\ pc = "walking"
    /\ walker = "get"
    /\ WalkOn(dav_calendar_get_walker(members[wpos], out # <<>>))

\* one step of the walk of the calendar-query and multiget reports
ReportStep ==
    /\ pc = "walking"
    /\ walker = "report"
    /\ WalkOn(dav_calendar_report_walker(members[wpos], out # <<>>))

NextWalk == GetStep \/ ReportStep

SpecWalk == InitWalk /\ [][NextWalk]_vars

(***************************************************************************)
(* Creation of a calendar collection, by MKCALENDAR and by provisioning.   *)
(* A resource is "missing", a "file", a plain "collection" or a "calendar" *)
(* collection, whose DAV:resourcetype holds the calendar element.          *)
(***************************************************************************)

\* ancestors of the target
MaxDepth == 3

Conflict == "HTTP_CONFLICT"
MethodNotAllowed == "HTTP_METHOD_NOT_ALLOWED"

ResourceKinds == {"missing", "file", "collection", "calendar"}

\* resource->exists
Exists(k) == k # "missing"

\* resource->collection of the target, which the repository resolved
IsCollection(k) == k \in {"collection", "calendar"}

\* parent->collection of a resource that get_parent_resource returned: the
\* repository takes a parent that does not exist for a collection
ParentIsCollection(k) == k # "file"

\* the chains of resources a repository can hold: below a missing resource
\* and below a file everything is missing
Chain(t, anc) ==
    /\ \A i \in DOMAIN anc :
          anc[i] \in {"missing", "file"} =>
              /\ t = "missing"
              /\ \A j \in 1..(i - 1) : anc[j] = "missing"

RECURSIVE CheckParents(_, _, _, _)

\* the end of the loop body in dav_calendar_check_calender: e is the error
\* the resourcetype test left in err, which get_parent_resource overwrites
\* with its own result
ParentChecked(anc, i, keep, mkcols, e) == CheckParents(anc, i + 1, keep, mkcols)

\* the while (parent) loop from the ancestor at position i on; mkcols holds
\* the positions of the ancestors to create, and keep tells whether the
\* caller passed an array for them
CheckParents(anc, i, keep, mkcols) ==
    IF i > Len(anc) THEN [err |-> NoError, mkcols |-> mkcols]
    ELSE IF ~ParentIsCollection(anc[i]) THEN [err |-> Conflict, mkcols |-> mkcols]
    ELSE ParentChecked(anc, i, keep,
                       IF keep /\ ~Exists(anc[i]) THEN Append(mkcols, i) ELSE mkcols,
                       IF anc[i] = "calendar" THEN Conflict ELSE NoError)

\* dav_calendar_check_calender(r, resource, provider, mkcols)
dav_calendar_check_calender(t, anc, keep) ==
    IF Exists(t) THEN [err |-> Conflict, mkcols |-> <<>>]
    ELSE CheckParents(anc, 1, keep, <<>>)

\* dav_calendar_make_calendar(r, resource): create_collection fails with a
\* conflict under a parent that does not exist; otherwise the collection is
\* made and its resourcetype is stored
dav_calendar_make_calendar(t, anc) ==
    IF anc # <<>> /\ ~Exists(anc[1]) THEN [err |-> Conflict, tgt |-> t]
    ELSE [err |-> NoError, tgt |-> "calendar"]

InitProvision ==
    /\ pc = "ready"
    /\ CoreIdle
    /\ WalkIdle
    /\ tgt \in ResourceKinds
    /\ ancestors \in SeqsUpTo(ResourceKinds, MaxDepth)
    /\ Chain(tgt, ancestors)
    /\ before = [tgt |-> tgt, ancestors |-> ancestors]
    /\ pstatus = NoError
    /\ LineIdle
    /\ RecurIdle

\* the end of both requests: the target is made a calendar under the
\* ancestors anc unless the check c failed
Provisioned(c, anc) ==
    \E m \in {IF c.err # NoError THEN [err |-> c.err, tgt |-> tgt]
              ELSE dav_calendar_make_calendar(tgt, anc)} :
        /\ pstatus' = m.err
        /\ tgt' = m.tgt
        /\ ancestors' = IF m.err = NoError THEN anc ELSE ancestors
        /\ pc' = "done"
        /\ UNCHANGED <<coreVars, walkVars, before, lineVars, recurVars>>

\* dav_calendar_handle_mkcalendar up to the creation of the collection
Mkcalendar ==
    /\ pc = "ready"
    /\ Provisioned(IF Exists(tgt) THEN [err |-> MethodNotAllowed, mkcols |-> <<>>]
                   ELSE dav_calendar_check_calender(tgt, ancestors, FALSE),
                   ancestors)

\* dav_calendar_provision_calendar: a target that is a collection is left
\* alone; otherwise the ancestors in mkcols are created, the topmost first
ProvisionCalendar ==
    /\ pc = "ready"
    /\ IF Exists(tgt) /\ IsCollection(tgt)
       THEN /\ pstatus' = NoError
            /\ pc' = "done"
            /\ UNCHANGED <<coreVars, walkVars, tgt, ancestors, before, lineVars,
                           recurVars>>
       ELSE \E c \in {dav_calendar_check_calender(tgt, ancestors, TRUE)} :
               Provisioned(c, [i \in DOMAIN ancestors |->
                                 IF \E k \in DOMAIN c.mkcols : c.mkcols[k] = i
                                 THEN "collection" ELSE ancestors[i]])

NextProvision == Mkcalendar \/ ProvisionCalendar

SpecProvision == InitProvision /\ [][NextProvision]_vars

(***************************************************************************)
(* The parse filter reading the body of a resource.  A bucket is the       *)
(* string of its bytes, a brigade a sequence of buckets; the filter is     *)
(* called once with every brigade of the body.                             *)
(***************************************************************************)

\* line breaks, folds and other bytes in a body
MaxTokens == 3

APR_ASCII_TAB == 9
APR_ASCII_LF == 10
APR_ASCII_CR == 13
APR_ASCII_BLANK == 32

\* memchr(str, c, len): position of the first c in str, 0 for NULL
RECURSIVE Memchr(_, _, _)
Memchr(str, c, i) ==
    IF i > Len(str) THEN 0
    ELSE IF str[i] = c THEN i
    ELSE Memchr(str, c, i + 1)

\* apr_bucket_split(e, 1) and apr_bucket_delete(e) on the first bucket
DeleteByte(bbIn) == <<Tail(bbIn[1])>> \o Tail(bbIn)

\* state 0 of the loop body: the first bucket is split before the byte at
\* position p that was looked for (0 when there is none) and its first part
\* is written to bbOut
SplitAt(bbIn, outp, p, state) ==
    IF p = 0
    THEN [bb |-> Tail(bbIn), state |-> 0, out |-> outp \o bbIn[1], done |-> FALSE]
    ELSE [bb |-> <<SubSeq(bbIn[1], p, Len(bbIn[1]))>> \o Tail(bbIn), state |-> state,
          out |-> outp \o SubSeq(bbIn[1], 1, p - 1), done |-> FALSE]

\* one iteration of the while loop of dav_calendar_brigade_split_folded_line
\* on the first bucket of bbIn; done tells that the function has returned
SplitStep(bbIn, state, outp) ==
    IF state = 0
    THEN IF Memchr(bbIn[1], APR_ASCII_CR, 1) # 0
         THEN SplitAt(bbIn, outp, Memchr(bbIn[1], APR_ASCII_CR, 1), APR_ASCII_CR)
         ELSE SplitAt(bbIn, outp, Memchr(bbIn[1], APR_ASCII_LF, 1), APR_ASCII_LF)
    ELSE IF state \in {APR_ASCII_CR, APR_ASCII_LF} /\ bbIn[1] # <<>>
            /\ bbIn[1][1] = state
    THEN [bb |-> DeleteByte(bbIn),
          state |-> IF state = APR_ASCII_CR THEN APR_ASCII_LF ELSE APR_ASCII_BLANK,
          out |-> outp, done |-> FALSE]
    ELSE IF state = APR_ASCII_BLANK /\ bbIn[1] # <<>>
    THEN IF bbIn[1][1] \in {APR_ASCII_BLANK, APR_ASCII_TAB}
         THEN [bb |-> DeleteByte(bbIn), state |-> 0, out |-> outp, done |-> FALSE]
         ELSE [bb |-> bbIn, state |-> state, out |-> outp, done |-> TRUE]
    ELSE [bb |-> Tail(bbIn), state |-> state, out |-> outp \o bbIn[1], done |-> FALSE]

\* the while (!APR_BRIGADE_EMPTY(bbIn)) loop
RECURSIVE SplitLoop(_)
SplitLoop(l) ==
    IF l.done \/ l.bb = <<>> THEN l
    ELSE SplitLoop(SplitStep(l.bb, l.state, l.out))

\* dav_calendar_brigade_split_folded_line(bbOut, bbIn, block, maxbytes) for
\* lines shorter than maxbytes: out is what bbOut holds afterwards and bb
\* what is left in bbIn
dav_calendar_brigade_split_folded_line(bbIn) ==
    SplitLoop([bb |-> bbIn, state |-> 0, out |-> <<>>, done |-> FALSE])

RECURSIVE ParseLines(_, _)

\* the body of the loop of the parse filter: the flattened bbOut is handed
\* to icalparser_add_line and the loop goes on with what is left
LineHanded(l, handed) == ParseLines(l.bb, Append(handed, l.out))

\* the while (!APR_BRIGADE_EMPTY(bb)) loop of
\* dav_calendar_parse_icalendar_filter; handed are the lines handed over
ParseLines(bb, handed) ==
    IF bb = <<>> THEN handed
    ELSE LineHanded(dav_calendar_brigade_split_folded_line(bb), handed)

\* the pieces a body is made of: a byte, a blank, a line break
Tokens == {<<97>>, <<APR_ASCII_BLANK>>, <<APR_ASCII_CR, APR_ASCII_LF>>}

RECURSIVE Flatten(_)
Flatten(seqs) == IF seqs = <<>> THEN <<>> ELSE seqs[1] \o Flatten(Tail(seqs))

Bodies == {Flatten(ts) : ts \in SeqsUpTo(Tokens, MaxTokens)}

\* the body cut into buckets after the positions where cuts is not "none",
\* and into brigades where it is "brigade"; cur is the bucket and bri the
\* brigade being filled
RECURSIVE Cut(_, _, _, _, _)
Cut(body, cuts, i, cur, bri) ==
    IF i > Len(body) THEN <<>>
    ELSE IF i = Len(body) THEN <<Append(bri, Append(cur, body[i]))>>
    ELSE IF cuts[i] = "brigade"
    THEN <<Append(bri, Append(cur, body[i]))>> \o Cut(body, cuts, i + 1, <<>>, <<>>)
    ELSE IF cuts[i] = "bucket"
    THEN Cut(body, cuts, i + 1, <<>>, Append(bri, Append(cur, body[i])))
    ELSE Cut(body, cuts, i + 1, Append(cur, body[i]), bri)

InitLines ==
    /\ pc = "reading"
    /\ CoreIdle
    /\ WalkIdle
    /\ ProvIdle
    /\ \E body \in Bodies :
          \E cuts \in [1..(Len(body) - 1) -> {"none", "bucket", "brigade"}] :
             input = Cut(body, cuts, 1, <<>>, <<>>)
    /\ pending = input
    /\ lines = <<>>
    /\ RecurIdle

\* dav_calendar_parse_icalendar_filter is called with the next brigade of
\* the body
ParseBrigade ==
    /\ pc = "reading"
    /\ pending # <<>>
    /\ lines' = ParseLines(Head(pending), lines)
    /\ pending' = Tail(pending)
    /\ UNCHANGED <<pc, coreVars, walkVars, provVars, input, recurVars>>

NextLines == ParseBrigade

SpecLines == InitLines /\ [][NextLines]_vars

(***************************************************************************)
(* Expansion of a recurring event, one instance at a time.  The event      *)
(* recurs every year from the year of its DTSTART on; times are years.     *)
(***************************************************************************)

\* the year of the end dav_calendar_time_range gives a range without end
DefaultEndYear == 9999

\* the last year the recurrence iterator of the library yields an instance
\* in, which depends on the width of time_t the library was built for
IteratorHorizons == {2037, 2582}

\* the years of the DTSTART of the event
DtstartYears == {2024}

\* COUNT of the RRULE, 0 for a rule without COUNT and UNTIL
RuleCounts == {0, 2}

\* the years a time-range starts and ends in
RangeStartYears == {2024, 2030}
RangeEndYears == {2026, 2040}

\* the recurrence iterator has no further instance: COUNT instances were
\* yielded or the library's horizon is passed
IteratorExhausted(rc, y) ==
    \/ rc.count # 0 /\ y - rc.dtstart >= rc.count
    \/ y > rc.horizon

\* the instance of year y overlaps the range given to the expansion
InstanceInRange(rc, y) == rc.rstart <= y /\ y <= rc.rend

InitRecur ==
    /\ pc = "expanding"
    /\ CoreIdle
    /\ WalkIdle
    /\ ProvIdle
    /\ LineIdle
    /\ \E site \in {"time-range", "free-busy"}, d \in DtstartYears, c \in RuleCounts,
          s \in RangeStartYears, e \in RangeEndYears \cup {DefaultEndYear},
          h \in IteratorHorizons :
           recur = [site |-> site, dtstart |-> d, count |-> c,
                    rstart |-> s, rend |-> e, open |-> e = DefaultEndYear,
                    horizon |-> h]
    /\ ryear = recur.dtstart
    /\ ninst = 0

\* one turn of the loop of icalcomponent_foreach_recurrence(comp, *stt, *ett,
\* callback, ctx): the loop ends when the iterator is exhausted or the
\* instance starts after the end of the range; otherwise the callback is
\* called for an instance that overlaps the range.  The call passes the
\* range and nothing else, and no path sets an error.
NextInstance ==
    /\ pc = "expanding"
    /\ IF IteratorExhausted(recur, ryear) \/ ryear > recur.rend
       THEN /\ pc' = "expanded"
            /\ UNCHANGED <<match, ryear, ninst>>
       ELSE /\ ryear' = ryear + 1
            /\ ninst' = IF InstanceInRange(recur, ryear) THEN ninst + 1 ELSE ninst
            /\ match' = (match \/ (recur.site = "time-range"
                                   /\ InstanceInRange(recur, ryear)))
            /\ UNCHANGED pc
    /\ UNCHANGED <<pre, err, icalerrno, textVars, timeVars, filterVars, rangeVars,
                   dataVars, walkVars, provVars, lineVars, recur>>

NextRecur == NextInstance

SpecRecur == InitRecur /\ [][NextRecur]_vars

(***************************************************************************)
(* Properties of the text matcher.                                         *)
(***************************************************************************)

\* RFC 4790 i;ascii-casemap folds the letters A-Z and a-z only
FoldLetter(c) == IF c \in 65..90 THEN c + 32 ELSE c

FoldLetters(s) == [i \in 1..Len(s) |-> FoldLetter(s[i])]

\* p occurs in s as a contiguous substring
Contains(p, s) ==
    \E i \in 0..Len(s) : i + Len(p) <= Len(s) /\ SubSeq(s, i + 1, i + Len(p)) = p

\* a text-match element evaluated to completion with the flag initially false
Evaluated == pc = "done" /\ ~pre /\ err = NoError

\* C6: under i;ascii-casemap the test is true iff the candidate contains the
\* pattern as a contiguous substring when only the letters A-Z/a-z are
\* case-folded, for every pattern and candidate including the empty ones and
\* punctuation; under i;octet it is true iff the candidate contains the
\* pattern byte for byte.
C6_AsciiCasemapFoldsLettersOnly ==
    (Evaluated /\ text_match.negate \in {NoAttr, "no"}) =>
        /\ text_match.collation = DAV_CALENDAR_COLLATION_ASCII_CASEMAP =>
              (match <=> Contains(FoldLetters(text_match.cdata), FoldLetters(text)))
        /\ text_match.collation = DAV_CALENDAR_COLLATION_OCTET =>
              (match <=> Contains(text_match.cdata, text))

\* the flag the same element would leave with another negate-condition
WithNegate(n) ==
    dav_calendar_text_match(FALSE, [text_match EXCEPT !.negate = n], text).match

\* C7: for every text-match element evaluated with the flag initially false,
\* negate-condition="yes" sets the flag exactly when the same element with
\* negate-condition="no" would not set it, and vice versa.
C7_NegateInvertsOutcome ==
    /\ (Evaluated /\ text_match.negate = "yes") => (match <=> ~WithNegate("no"))
    /\ (Evaluated /\ text_match.negate = "no") => (match <=> ~WithNegate("yes"))

\* C8: a text-match element without a collation attribute sets the flag
\* exactly as the same element with collation="i;ascii-casemap" would.
C8_DefaultCollationIsAsciiCasemap ==
    (Evaluated /\ text_match.collation = NoAttr) =>
        (match <=>
            dav_calendar_text_match(FALSE,
                [text_match EXCEPT !.collation = DAV_CALENDAR_COLLATION_ASCII_CASEMAP],
                text).match)

(***************************************************************************)
(* Properties of the time-range resolver.                                  *)
(***************************************************************************)

\* the bound is present and is parsed as a date or date-time
Parses(b) == b # NoBound /\ icaltime_from_string(b).ok

\* 00000101T000000Z and 99991231T235959Z
OpenStart == MkTime(<<0, 1, 1, 0, 0, 0>>, FALSE, TRUE)
OpenEnd == MkTime(<<9999, 12, 31, 23, 59, 59>>, FALSE, TRUE)

\* a time-range element resolved with the flag initially false
Resolved == pc = "done" /\ ~pre

\* C9: resolving a time-range with exactly one of start/end present and
\* well-formed succeeds and yields the given bound with the default for the
\* missing one; resolving fails with CALDAV:valid-filter iff both attributes
\* are absent or a present bound cannot be parsed.
C9_OneBoundSuffices ==
    Resolved =>
        LET s == time_range.start
            e == time_range.end
        IN /\ (Parses(s) /\ e = NoBound) =>
                 /\ err = NoError
                 /\ stt = <<icaltime_from_string(s).tt>>
                 /\ ett = <<OpenEnd>>
           /\ (s = NoBound /\ Parses(e)) =>
                 /\ err = NoError
                 /\ stt = <<OpenStart>>
                 /\ ett = <<icaltime_from_string(e).tt>>
           /\ (err = ValidFilter) <=>
                 \/ s = NoBound /\ e = NoBound
                 \/ s # NoBound /\ ~Parses(s)
                 \/ e # NoBound /\ ~Parses(e)

\* C10: the outcome of resolving a well-formed time-range depends only on its
\* own start/end attributes: it is the outcome the same element has when
\* nothing was parsed before, whatever the ambient error indicator held.
C10_ResolutionIgnoresAmbientError ==
    (Resolved /\ (Parses(time_range.start) \/ time_range.start = NoBound)
              /\ (Parses(time_range.end) \/ time_range.end = NoBound)
              /\ ~(time_range.start = NoBound /\ time_range.end = NoBound)) =>
        LET r == dav_calendar_time_range(FALSE, ICAL_NO_ERROR, time_range, <<>>, <<>>)
        IN err = r.err /\ stt = r.stt /\ ett = r.ett

(***************************************************************************)
(* Properties of the filter matcher.                                       *)
(***************************************************************************)

\* the report is a calendar-query whose filter holds one comp-filter named
\* VCALENDAR, which holds one comp-filter
OneSubFilter ==
    /\ doc.root = "calendar-query"
    /\ Len(doc.filter) = 1
    /\ Len(doc.filter[1].cf) = 1
    /\ doc.filter[1].cf[1].name = "VCALENDAR"
    /\ ~doc.filter[1].cf[1].ind
    /\ doc.filter[1].cf[1].pf = <<>>
    /\ Len(doc.filter[1].cf[1].cf) = 1

TopFilter == doc.filter[1].cf[1]
SubFilter == TopFilter.cf[1]

\* the sub comp-filter is named and holds one prop-filter and nothing else
OnePropFilter ==
    /\ OneSubFilter
    /\ SubFilter.name # NoAttr
    /\ ~SubFilter.ind
    /\ SubFilter.cf = <<>>
    /\ Len(SubFilter.pf) = 1

SubPropFilter == SubFilter.pf[1]

\* the prop-filter is named and holds one param-filter and nothing else
OneParamFilter ==
    /\ OnePropFilter
    /\ TopFilter.tr = <<>>
    /\ SubFilter.tr = <<>>
    /\ SubPropFilter.name # NoAttr
    /\ ~SubPropFilter.ind
    /\ SubPropFilter.tr = <<>>
    /\ SubPropFilter.tm = <<>>
    /\ Len(SubPropFilter.prm) = 1

SubParamFilter == SubPropFilter.prm[1]

HasKind(o, k) == \E i \in DOMAIN o.comps : o.comps[i].kind = k
HasProp(c, n) == \E i \in DOMAIN c.props : c.props[i].name = n
HasParam(c, n, q) ==
    \E i \in DOMAIN c.props :
        /\ c.props[i].name = n
        /\ \E j \in DOMAIN c.props[i].params : c.props[i].params[j].name = q

\* every component of the object is of the kind the sub comp-filter names
OnlyKind(o, k) == \A i \in DOMAIN o.comps : o.comps[i].kind = k

\* the first object of a resource has been evaluated to completion
FirstEvaluated == pc = "done" /\ nobj = 1

\* C1: at each of the three levels a filter carrying is-not-defined makes the
\* evaluation match whenever the actual parent has no child of that name,
\* including a parent that has no children at all at that level.
C1_IsNotDefinedMatchesAbsent ==
    FirstEvaluated =>
        /\ (OneSubFilter /\ TopFilter.tr = <<>> /\ SubFilter.ind
              /\ SubFilter.name # NoAttr /\ ~HasKind(comp, SubFilter.name))
             => match
        /\ (OnePropFilter /\ TopFilter.tr = <<>> /\ SubFilter.tr = <<>>
              /\ SubPropFilter.ind /\ SubPropFilter.name # NoAttr
              /\ comp.comps # <<>> /\ OnlyKind(comp, SubFilter.name)
              /\ \A i \in DOMAIN comp.comps :
                    ~HasProp(comp.comps[i], SubPropFilter.name))
             => match
        /\ (OneParamFilter /\ SubParamFilter.ind /\ SubParamFilter.name # NoAttr
              /\ comp.comps # <<>> /\ OnlyKind(comp, SubFilter.name)
              /\ \A i \in DOMAIN comp.comps :
                    /\ HasProp(comp.comps[i], SubPropFilter.name)
                    /\ ~HasParam(comp.comps[i], SubPropFilter.name,
                                 SubParamFilter.name))
             => match

\* C2: at each of the three levels a filter carrying is-not-defined does not
\* make the evaluation match when a child of that name exists under the
\* actual parent, whatever other children precede or follow it.
C2_IsNotDefinedFailsWhenPresent ==
    FirstEvaluated =>
        /\ (OneSubFilter /\ TopFilter.tr = <<>> /\ SubFilter.ind
              /\ SubFilter.name # NoAttr /\ HasKind(comp, SubFilter.name))
             => ~match
        /\ (OnePropFilter /\ TopFilter.tr = <<>> /\ SubFilter.tr = <<>>
              /\ SubPropFilter.ind /\ SubPropFilter.name # NoAttr
              /\ comp.comps # <<>> /\ OnlyKind(comp, SubFilter.name)
              /\ \A i \in DOMAIN comp.comps :
                    HasProp(comp.comps[i], SubPropFilter.name))
             => ~match
        /\ (OneParamFilter /\ SubParamFilter.ind /\ SubParamFilter.name # NoAttr
              /\ comp.comps # <<>> /\ OnlyKind(comp, SubFilter.name)
              /\ \A i \in DOMAIN comp.comps :
                    \A j \in DOMAIN comp.comps[i].props :
                        comp.comps[i].props[j].name = SubPropFilter.name =>
                            \E k \in DOMAIN comp.comps[i].props[j].params :
                                comp.comps[i].props[j].params[k].name
                                    = SubParamFilter.name)
             => ~match

\* C3: a filter that has none of time-range, text-match and nested filters
\* matches as soon as a child of its name exists, at every level and whatever
\* time-range an ancestor filter declares.
C3_ExistenceSuffices ==
    FirstEvaluated =>
        /\ (OneSubFilter /\ ~SubFilter.ind /\ SubFilter.name # NoAttr
              /\ SubFilter.tr = <<>> /\ SubFilter.pf = <<>> /\ SubFilter.cf = <<>>
              /\ HasKind(comp, SubFilter.name))
             => match
        /\ (OnePropFilter /\ ~SubPropFilter.ind /\ SubPropFilter.name # NoAttr
              /\ SubPropFilter.tr = <<>> /\ SubPropFilter.tm = <<>>
              /\ SubPropFilter.prm = <<>>
              /\ \E i \in DOMAIN comp.comps :
                    /\ comp.comps[i].kind = SubFilter.name
                    /\ HasProp(comp.comps[i], SubPropFilter.name))
             => match
        /\ (OnePropFilter /\ ~SubPropFilter.ind /\ SubPropFilter.name # NoAttr
              /\ SubPropFilter.tm = <<>> /\ Len(SubPropFilter.prm) = 1
              /\ ~SubParamFilter.ind /\ SubParamFilter.name # NoAttr
              /\ SubParamFilter.tm = <<>>
              /\ \E i \in DOMAIN comp.comps :
                    /\ comp.comps[i].kind = SubFilter.name
                    /\ HasParam(comp.comps[i], SubPropFilter.name,
                                SubParamFilter.name))
             => match

\* C4: once the flag has become true during an evaluation every later step
\* of that evaluation is a no-op that returns success, so an evaluation that
\* has set the flag never ends in an error or a fault.
C4_NoErrorAfterMatch ==
    (pc = "failed" /\ ~pre) => ~match

\* C5: the flag is false when the evaluation of a calendar object starts, and
\* an object is reported as matching only if it matches when evaluated alone.
C5_FlagFalseAtObjectStart ==
    /\ pc \in {"done", "failed"} => ~pre
    /\ (pc = "done" /\ match) =>
          dav_calendar_filter(World(comp, FALSE, ICAL_NO_ERROR, garbage), doc).match

(***************************************************************************)
(* Properties of the time-range tests.                                     *)
(***************************************************************************)

\* a test was asked for with the flag still clear
RangeTested == pc = "done" /\ ~pre

\* the component and the property the test was about
TestedComp == Node(comp, target.path)
TestedProp == TestedComp.props[target.prop]

\* the first property of that name
PropNamed(c, n) == c.props[CHOOSE i \in DOMAIN c.props : c.props[i].name = n]

RangeStart == TimeT(stt[1])
RangeEnd == TimeT(ett[1])

\* start <= t and end > t
InRange(t) == RangeStart <= t /\ RangeEnd > t

\* the spans [a, b) and [c, d) intersect
Intersects(a, b, c, d) == a < d /\ c < b

\* an EXDATE of the component excludes the time
Excluded(c, t) ==
    \E i \in DOMAIN c.props :
        c.props[i].name = "EXDATE" /\ TimeT(c.props[i].time) = TimeT(t)

\* C11: a COMPLETED, CREATED, DTEND, DTSTAMP, DTSTART, DUE or LAST-MODIFIED
\* property (of a component without exclusions) matches a time-range iff
\* range.start <= timestamp and range.end > timestamp
C11_TimestampInRange ==
    (/\ RangeTested
     /\ target.prop # 0
     /\ TestedProp.name \in TimeNames
     /\ ~HasProp(TestedComp, "EXDATE"))
        => (match <=> InRange(TimeT(TestedProp.time)))

\* C12: a property timestamp that is excluded by an EXDATE and lies outside
\* the range does not set the match flag
C12_ExcludedTimestampIsNoMatch ==
    (/\ RangeTested
     /\ target.prop # 0
     /\ TestedProp.name \in TimeNames
     /\ Excluded(TestedComp, TestedProp.time)
     /\ ~InRange(TimeT(TestedProp.time)))
        => ~match

\* the end of the instance that starts at DTSTART: DTEND, or a day later for
\* a DATE and the start itself for a DATE-TIME
InstanceEnd(c) ==
    IF HasProp(c, "DTEND") THEN TimeT(PropNamed(c, "DTEND").time)
    ELSE IF PropNamed(c, "DTSTART").time.is_date
    THEN TimeT(PropNamed(c, "DTSTART").time) + 86400
    ELSE TimeT(PropNamed(c, "DTSTART").time)

\* the component has an instance, not excluded, whose span intersects the range
InstanceOverlaps(c) ==
    /\ HasProp(c, "DTSTART")
    /\ ~Excluded(c, PropNamed(c, "DTSTART").time)
    /\ Intersects(TimeT(PropNamed(c, "DTSTART").time), InstanceEnd(c),
                  RangeStart, RangeEnd)

C14_FreebusyPeriodsDecide ==
    (/\ RangeTested
     /\ target.prop = 0
     /\ TestedComp.kind = "VFREEBUSY"
     /\ ~HasProp(TestedComp, "DTSTART")
     /\ ~HasProp(TestedComp, "DTEND"))
        => (match <=>
              \E i \in DOMAIN TestedComp.props :
                  /\ TestedComp.props[i].name = "FREEBUSY"
                  /\ Intersects(TimeT(TestedComp.props[i].time),
                                TimeT(TestedComp.props[i].end),
                                RangeStart, RangeEnd))

\* seconds of a duration held as a time of year 0
Seconds(d) == d.day * 86400 + d.hour * 3600 + d.minute * 60 + d.second

\* the times at which the alarm a of the component c triggers: the absolute
\* time, or the offset from the start of c, and again after every DURATION
\* for REPEAT more times
TriggerTimes(a, c) ==
    IF ~HasProp(a, "TRIGGER") THEN {}
    ELSE IF PropNamed(a, "TRIGGER").time.year # 0
    THEN {TimeT(PropNamed(a, "TRIGGER").time)}
    ELSE IF ~HasProp(c, "DTSTART") THEN {}
    ELSE {TimeT(PropNamed(c, "DTSTART").time) + Seconds(PropNamed(a, "TRIGGER").time)
            + k * (IF HasProp(a, "DURATION")
                   THEN Seconds(PropNamed(a, "DURATION").time) ELSE 0) :
          k \in 0..(IF HasProp(a, "REPEAT")
                    THEN PropNamed(a, "REPEAT").value[1] - 48 ELSE 0)}

\* C15: a VALARM overlaps a time-range iff at least one of its trigger times
\* t satisfies start <= t and end > t
C15_TriggerInRangeDecides ==
    (/\ RangeTested
     /\ target.prop = 0
     /\ TestedComp.kind = "VALARM")
        => (match <=>
              \E t \in TriggerTimes(TestedComp,
                                    Node(comp, icalcomponent_get_parent(target.path))) :
                  InRange(t))


(***************************************************************************)
(* Properties of the top-level evaluation and of the output.               *)
(***************************************************************************)

\* a calendar object was parsed and handed to dav_calendar_filter
ObjectEvaluated == pc \in {"done", "failed"} /\ nobj > 0 /\ err # InternalError

\* what dav_calendar_filter makes of the object the parser delivered
FilterAlone == dav_calendar_filter(World(parsed, pre, ICAL_NO_ERROR, garbage), doc)

\* C16: the root element of the report selects the evaluation:
\* calendar-multiget sets the flag whatever the object is; calendar-query
\* without a filter child or without a comp-filter beneath it fails with
\* CALDAV:valid-filter; free-busy-query without a time-range fails with
\* CALDAV:valid-filter; any other root element fails with an error; and in
\* each failing case the flag is false on return.
C16_RootSelectsEvaluation ==
    ObjectEvaluated =>
        /\ doc.root = "calendar-multiget" => (match /\ pc = "done")
        /\ (doc.root = "calendar-query"
              /\ (doc.filter = <<>> \/ doc.filter[1].cf = <<>>)) =>
             (err = ValidFilter /\ ~match)
        /\ (doc.root = "free-busy-query" /\ doc.tr = <<>>) =>
             (err = ValidFilter /\ ~match)
        /\ doc.root \notin {"calendar-query", "calendar-multiget", "free-busy-query",
                            "<no doc>"} =>
             (pc = "failed" /\ err # NoError /\ ~match)

\* a calendar-query without a comp-filter has failed on an object
C16_Witness ==
    /\ ObjectEvaluated
    /\ doc.root = "calendar-query"
    /\ doc.filter # <<>>
    /\ doc.filter[1].cf = <<>>
    /\ parsed.comps # <<>>
    /\ err = ValidFilter

\* C17: matching does not change the calendar object: after the evaluation of
\* an object under a calendar-query, whether it matched, did not match or
\* failed with an error, the object holds the components, properties and
\* parameters the parser delivered.
C17_MatchingLeavesObject ==
    (ObjectEvaluated /\ doc.root = "calendar-query" /\ elem = <<>>) => comp = parsed

\* C18: an evaluation that returns an error has no partial result: the flag
\* is not set by it and the object is not put into the output.
C18_ErrorLeavesNoResult ==
    [][(pc' = "failed" /\ err' \in {ValidFilter, SupportedCollation})
          => (out' = out /\ (match' => match))]_vars

\* C19: the projector runs only on an object whose evaluation ended with a
\* match: an object that ended without one is left as the filter left it, and
\* the projector never changes the flag.
C19_ProjectorOnlyAfterMatch ==
    (pc = "done" /\ nobj > 0) =>
        /\ match = FilterAlone.match
        /\ ~match => comp = FilterAlone.obj

(***************************************************************************)
(* Properties of the projector.                                            *)
(***************************************************************************)

\* the comp selector of the calendar-data element, which names VCALENDAR
RootSel == elem[1].comps[1]

\* some sibling selector has that name
Names(sels, n) == \E i \in DOMAIN sels : sels[i].name = n

\* the first sibling selector of that name
Naming(sels, n) == sels[CHOOSE i \in DOMAIN sels :
                           /\ sels[i].name = n
                           /\ \A j \in 1..(i - 1) : sels[j].name # n]

\* the kinds and property names of a component, level by level
RECURSIVE Shape(_)
Shape(c) ==
    [kind |-> c.kind,
     props |-> [i \in DOMAIN c.props |-> c.props[i].name],
     comps |-> [i \in DOMAIN c.comps |-> Shape(c.comps[i])]]

\* the shape the component c has after projection under the selector s that
\* names it: without the marker of a level only the named children survive,
\* in their order
RECURSIVE Survivors(_, _)
SurvivingComps(cs, s) ==
    LET named(c) == Names(s.comps, c.kind)
        kept == SelectSeq(cs, named)
    IN [i \in DOMAIN kept |-> Survivors(kept[i], Naming(s.comps, kept[i].kind))]

Survivors(c, s) ==
    LET named(p) == Names(s.props, p.name)
        kept == SelectSeq(c.props, named)
    IN [kind |-> c.kind,
        props |-> IF s.allprop THEN Shape(c).props
                  ELSE [i \in DOMAIN kept |-> kept[i].name],
        comps |-> IF s.allcomp THEN Shape(c).comps ELSE SurvivingComps(c.comps, s)]

\* C20: after a projection, at every level of a surviving component whose
\* selector has no allcomp (allprop) marker the sub-components (properties)
\* left are the original ones named by a comp (prop) child of the selector,
\* in their original order, also where the selector names no child at all.
C20_OnlyNamedChildrenSurvive ==
    (pc = "done" /\ comp # NullComponent) => Shape(comp) = Survivors(parsed, RootSel)

\* C21: projection is idempotent: projecting the projected object against the
\* same selection, novalue markers included, removes nothing, changes no
\* value and returns the same result.
C21_ProjectionIdempotent ==
    [][(pc = "done" /\ pc' = "again") => (comp' = comp /\ err' = err)]_vars

\* an object that lost a child and had a value blanked was projected again
C21_Witness ==
    /\ pc = "again"
    /\ Shape(comp) # Shape(parsed)
    /\ \E i \in DOMAIN comp.comps : \E j \in DOMAIN comp.comps[i].props :
          /\ comp.comps[i].props[j].name = "SUMMARY"
          /\ comp.comps[i].props[j].value = <<>>

(***************************************************************************)
(* Properties of the free-busy aggregation.                                *)
(***************************************************************************)

\* the value of the first property of that name in props, <<>> for none
ValueOf(props, n) == ValueAt(props, FirstProperty(props, n, 1))

\* the FBTYPE the claim gives an overlapping instance of the event c, <<>>
\* for an instance that contributes nothing
ExpectedFbtype(c) ==
    IF ValueOf(c.props, "TRANSP") = TranspTransparent THEN <<>>
    ELSE IF ValueOf(c.props, "STATUS") = StatusCancelled THEN <<>>
    ELSE IF ValueOf(c.props, "STATUS") = StatusTentative
    THEN <<66, 85, 83, 89, 45, 84, 69, 78, 84, 65, 84, 73, 86, 69>>
    ELSE <<66, 85, 83, 89>>

\* the event c has an instance inside the range of FreebusyDoc
Overlapping(c) == c.kind = "VEVENT" /\ c.props[1].time = Inside

\* the FBTYPE values the claim expects of the children cs, in their order
RECURSIVE ExpectedFbtypes(_)
ExpectedFbtypes(cs) ==
    IF cs = <<>> THEN <<>>
    ELSE (IF Overlapping(cs[1]) /\ ExpectedFbtype(cs[1]) # <<>>
          THEN <<ExpectedFbtype(cs[1])>> ELSE <<>>)
         \o ExpectedFbtypes(Tail(cs))

\* the FBTYPE values of the FREEBUSY properties in props, in their order
RECURSIVE FbtypesOf(_)
FbtypesOf(props) ==
    IF props = <<>> THEN <<>>
    ELSE (IF props[1].name = "FREEBUSY" THEN <<props[1].params[1].value>> ELSE <<>>)
         \o FbtypesOf(Tail(props))

\* the FBTYPE values of all VFREEBUSY children in cs
RECURSIVE ReportedFbtypes(_)
ReportedFbtypes(cs) ==
    IF cs = <<>> THEN <<>>
    ELSE (IF cs[1].kind = "VFREEBUSY" THEN FbtypesOf(cs[1].props) ELSE <<>>)
         \o ReportedFbtypes(Tail(cs))

\* C22: in an aggregation over an object without VTIMEZONE children every
\* overlapping VEVENT instance contributes by its TRANSP and STATUS alone:
\* nothing when transparent or cancelled, BUSY-TENTATIVE when tentative,
\* BUSY otherwise
C22_FbtypeFromTranspAndStatus ==
    (pc = "done" /\ ~HasKind(parsed, "VTIMEZONE"))
        => ReportedFbtypes(comp.comps) = ExpectedFbtypes(parsed.comps)

\* C22, the scenario of the claim: a confirmed event inside the range and a
\* cancelled one overlapping it give exactly one FREEBUSY tagged BUSY
C22_ScenarioOneBusy ==
    (pc = "done"
     /\ parsed.comps = <<FreebusyVevent(Inside, <<>>, StatusConfirmed),
                         FreebusyVevent(Inside, <<>>, StatusCancelled)>>)
        => ReportedFbtypes(comp.comps) = <<<<66, 85, 83, 89>>>>

\* C29: the aggregation returns for every object, also one that holds a
\* VTIMEZONE as its first child or after another child
C29_AggregationReturns ==
    pc \in {"done", "failed"} => err \notin {Hang, Crash}

(***************************************************************************)
(* Properties of the loops of the filter matcher.                          *)
(***************************************************************************)

\* some component of the kind the sub comp-filter names has a property of
\* the name the prop-filter names with a parameter of the name q
NamedParamExists(o, q) ==
    \E i \in DOMAIN o.comps :
        /\ o.comps[i].kind = SubFilter.name
        /\ HasParam(o.comps[i], SubPropFilter.name, q)

\* C26: a param-filter that only names a parameter is decided by comparing
\* its name with the own name of each parameter of the property, standard
\* parameters such as PARTSTAT as well as X- and IANA parameters: the
\* evaluation matches exactly when a parameter of that name exists
C26_ParameterComparedByOwnName ==
    (FirstEvaluated /\ OneParamFilter /\ SubParamFilter.name # NoAttr
       /\ ~SubParamFilter.ind /\ SubParamFilter.tm = <<>>)
        => (match <=> NamedParamExists(parsed, SubParamFilter.name))

\* C25: found is decided for each actual child on its own and the filter
\* element consulted for a child is one that was matched for it: a child that
\* matches no sibling filter is not treated as found after an earlier child
\* was, so no evaluation follows a null filter element
C25_FoundDecidedPerChild ==
    (pc = "failed" /\ garbage = <<>>) => err # Crash

\* some child of the object is of the kind the sub comp-filter names and has
\* a property of the name its prop-filter names
SatisfyingChildExists(o) ==
    \E i \in DOMAIN o.comps :
        /\ o.comps[i].kind = SubFilter.name
        /\ HasProp(o.comps[i], SubPropFilter.name)

\* C27: every child of the calendar is examined against the comp-filters of
\* its level, the second and later ones as well as the first: under a
\* comp-filter whose prop-filter only names a property the evaluation
\* matches exactly when some child of that kind has the property
C27_EveryChildExamined ==
    (pc \in {"done", "failed"} /\ nobj = 1 /\ OnePropFilter /\ TopFilter.tr = <<>>
       /\ SubFilter.tr = <<>> /\ SubPropFilter.name # NoAttr /\ ~SubPropFilter.ind
       /\ SubPropFilter.tr = <<>> /\ SubPropFilter.tm = <<>>
       /\ SubPropFilter.prm = <<>>)
        => (match <=> SatisfyingChildExists(parsed))

(***************************************************************************)
(* Properties of the walk of a report.                                     *)
(***************************************************************************)

\* the resource fails for the callback of the walk
Failing(res) ==
    ~res.collection /\ (~res.precondition \/ res.delivery # "ok" \/ ~res.propdb)

CreationConflicts(t, anc) ==
    \/ Exists(t)
    \/ \E i \in DOMAIN anc : anc[i] \in {"file", "calendar"}

\* C28: a creation whose target exists, or that has an ancestor that is not
\* a collection or an existing ancestor that is a calendar collection, ends
\* with 409 Conflict and creates nothing; and a creation succeeds only when
\* every ancestor is missing or a plain collection
C28_ConflictCreatesNothing ==
    pc = "done" =>
        /\ CreationConflicts(before.tgt, before.ancestors) =>
              /\ pstatus = Conflict
              /\ tgt = before.tgt
              /\ ancestors = before.ancestors
        /\ (pstatus = NoError /\ tgt # before.tgt) =>
              \A i \in DOMAIN before.ancestors :
                  before.ancestors[i] \in {"missing", "collection"}

(***************************************************************************)
(* Properties of the parse filter.                                         *)
(***************************************************************************)

\* the bytes of the body
BodyOf(in) == Flatten([i \in DOMAIN in |-> Flatten(in[i])])

\* the body without its folds: a line break followed by a blank or a tab
RECURSIVE Unfold(_)
Unfold(b) ==
    IF b = <<>> THEN <<>>
    ELSE IF Len(b) >= 3 /\ b[1] = APR_ASCII_CR /\ b[2] = APR_ASCII_LF
            /\ b[3] \in {APR_ASCII_BLANK, APR_ASCII_TAB}
    THEN Unfold(SubSeq(b, 4, Len(b)))
    ELSE <<b[1]>> \o Unfold(Tail(b))

\* the lines of b that are not empty, cur being the line at hand
RECURSIVE LinesOf(_, _)
LinesOf(b, cur) ==
    IF b = <<>> THEN IF cur = <<>> THEN <<>> ELSE <<cur>>
    ELSE IF Len(b) >= 2 /\ b[1] = APR_ASCII_CR /\ b[2] = APR_ASCII_LF
    THEN (IF cur = <<>> THEN <<>> ELSE <<cur>>) \o LinesOf(SubSeq(b, 3, Len(b)), <<>>)
    ELSE LinesOf(Tail(b), Append(cur, b[1]))

\* the lines in ls that are not empty
RECURSIVE NonEmpty(_)
NonEmpty(ls) ==
    IF ls = <<>> THEN <<>>
    ELSE (IF ls[1] = <<>> THEN <<>> ELSE <<ls[1]>>) \o NonEmpty(Tail(ls))

\* C30: once the whole body has been read the lines handed to the parser
\* are the logical lines of its bytes (folds removed, a line ended by every
\* other line break), however the body was cut into buckets and brigades
C30_LinesDependOnBytesOnly ==
    pending = <<>> => NonEmpty(lines) = LinesOf(Unfold(BodyOf(input)), <<>>)

\* C30 for the bodies that come in one brigade, whatever its buckets
C30_BucketsDoNotMatter ==
    (pending = <<>> /\ Len(input) <= 1)
        => NonEmpty(lines) = LinesOf(Unfold(BodyOf(input)), <<>>)

(***************************************************************************)
(* Properties of the expansion of a recurring event.                       *)
(***************************************************************************)

\* the smaller of two years
MinYear(a, b) == IF a <= b THEN a ELSE b

\* C24: the expansion of an event whose rule has neither COUNT nor UNTIL,
\* for a range without end, stops at a maximum number of instances given to
\* it and ends with the error RecurrenceLimitExceeded
C24_UnboundedExpansionReportsLimit ==
    (pc = "expanded" /\ recur.count = 0 /\ recur.open)
        => err = "RecurrenceLimitExceeded"

\* C24, what bounds the expansion instead: the callback is called for the
\* years from the start of the range to its end or to the horizon of the
\* iterator, whichever comes first
C24_InstancesWithinRange ==
    pc \in {"expanding", "expanded"} =>
        ninst <= MinYear(recur.rend, recur.horizon) - recur.dtstart + 1

====
